---- MODULE Spec2Model ----
(***************************************************************************)
(* Plan / Retrieve / Execute / Verify / Finalize graph of the              *)
(* agent-orchestrator package, together with the tool execution gateway    *)
(* (ToolExecutor) it drives.                                               *)
(*                                                                         *)
(* Texts are sequences of words.  A Python dict is a function whose        *)
(* DOMAIN is the set of keys present; d.get(k, default) is Get(d, k, def). *)
(***************************************************************************)
EXTENDS Integers, Sequences, FiniteSets, TLC

(***************************************************************************)
(* Bounds of the model                                                     *)
(***************************************************************************)
MaxBudget == 2
MaxGwRetries == 2
MaxSlowCalls == 1
MaxPlanLen == 3

(***************************************************************************)
(* Program constants                                                       *)
(***************************************************************************)
tool_max_retries == 1
llm_max_retries == 1
llm_provider == "openai"
DEFAULT_MAX_WORDS == 80
DEFAULT_LIMIT == 3

REQUIRED_TOOLS == <<"summarize", "extract_entities", "classify_priority">>
INCIDENT_HINTS == {"incident", "outage", "sev", "latency", "error"}
POLICY_TERMS == {"policy", "runbook"}
\* core tools without the extractors
CORE_TOOLS_short == <<"summarize">>

CORE_TOOLS == <<"extract_entities", "classify_priority", "summarize">>
INCIDENT_TOOLS == <<"search_incident_knowledge", "search_previous_issues", "build_incident_brief">>
ALLOWED_TOOLS ==
    {"summarize", "extract_entities", "extract_deadlines", "extract_action_items",
     "classify_priority", "search_incident_knowledge", "search_previous_issues",
     "build_incident_brief"}
RETRIEVAL_TOOLS == {"search_incident_knowledge", "search_previous_issues"}

TOOL_ARG_KEYS ==
    [t \in ALLOWED_TOOLS |->
        CASE t = "summarize" -> {"text", "max_words"}
          [] t \in {"extract_entities", "extract_deadlines", "extract_action_items",
                    "classify_priority"} -> {"text"}
          [] t = "search_incident_knowledge" -> {"query", "limit", "service", "severity"}
          [] t = "search_previous_issues" ->
                {"query", "limit", "service", "severity", "use_llm_rerank", "use_hybrid"}
          [] OTHER -> {"query", "incident_knowledge", "previous_issues"}]

(***************************************************************************)
(* Dicts, lists and texts                                                  *)
(***************************************************************************)
EmptyDict == [k \in {} |-> 0]
None == "None"

Get(d, k, default) == IF k \in DOMAIN d THEN d[k] ELSE default

\* a write that starts from an empty dict instead of a copy
Put_fresh(d, k, v) == [x \in {k} |-> v]

Put(d, k, v) == [x \in (DOMAIN d) \cup {k} |-> IF x = k THEN v ELSE d[x]]

\* {**a, **b}
Merge(a, b) == [x \in (DOMAIN a) \cup (DOMAIN b) |-> IF x \in DOMAIN b THEN b[x] ELSE a[x]]

Restrict(d, keys) == [x \in (DOMAIN d) \cap keys |-> d[x]]

Range(s) == {s[i] : i \in DOMAIN s}

Min(a, b) == IF a < b THEN a ELSE b
Max(a, b) == IF a > b THEN a ELSE b

\* body(x) for the value x of e
With(e, body(_)) == CHOOSE r \in {body(x) : x \in {e}} : TRUE

RECURSIVE SelectIdx(_, _, _)
\* [s[i] for i in range(len(s)) if Keep(i)], as the list comprehension builds it
SelectIdx(s, keep, i) ==
    IF i > Len(s) THEN <<>>
    ELSE (IF i \in keep THEN <<s[i]>> ELSE <<>>) \o SelectIdx(s, keep, i + 1)

\* the words of the model, each with its lower-case form
Lower(w) ==
    CASE w = "Investigate" -> "investigate"
      [] w = "Payments" -> "payments"
      [] w = "Prepare" -> "prepare"
      [] w = "PAYMENTS" -> "payments"
      [] w = "Runbook" -> "runbook"
      [] w = "Policy" -> "policy"
      [] w = "Outage" -> "outage"
      [] w = "Checkout" -> "checkout"
      [] w = "Alice" -> "alice"
      [] w = "Ticket" -> "ticket"
      [] w = "WLC-1" -> "wlc-1"
      [] w = "WLC-2" -> "wlc-2"
      [] w = "WLC-43" -> "wlc-43"
      [] w = "PAY" -> "pay"
      [] w = "WEB" -> "web"
      [] w = "SEV1" -> "sev1"
      [] OTHER -> w

\* \b[A-Z][a-zA-Z0-9_-]*\b
IsCapitalised(w) ==
    w \in {"Investigate", "Payments", "Prepare", "PAYMENTS", "Runbook", "Policy", "Outage",
           "Checkout", "Alice", "Ticket", "WLC-1", "WLC-2", "WLC-43", "PAY", "WEB", "SEV1"}

\* hint in text.lower(): no word of the model contains a hint without being it
ContainsAny(text, terms) == \E i \in DOMAIN text : Lower(text[i]) \in terms

\* needle.lower() in text.lower(), for a one-word needle
ContainsWord(text, w) == \E i \in DOMAIN text : Lower(text[i]) = Lower(w)

IsBlank(text) == Len(text) = 0

\* value.startswith("p") after lower().strip(), for the context values of the model
StartsWithP(v) == v \in {"P1", "p1"}

(***************************************************************************)
(* tools/registry.py: default arguments                                    *)
(***************************************************************************)
_context_value(context, key) ==
    LET raw == Get(context, key, None)
    IN  IF raw = None \/ raw = "" THEN None ELSE raw

_priority_text(user_input, context) ==
    LET line(key, label) ==
            IF _context_value(context, key) # None
            THEN <<label, _context_value(context, key)>> ELSE <<>>
        lines == line("priority", "Priority:") \o line("severity", "Severity:")
                    \o line("status", "Status:")
    IN  IF lines = <<>> THEN user_input ELSE lines \o <<"Summary:">> \o user_input

default_args_for_tool(tool_name, user_input, context) ==
    CASE tool_name = "summarize" -> [text |-> user_input, max_words |-> DEFAULT_MAX_WORDS]
      [] tool_name \in {"extract_entities", "extract_deadlines", "extract_action_items"} ->
            [text |-> user_input]
      [] tool_name = "classify_priority" -> [text |-> _priority_text(user_input, context)]
      [] tool_name \in {"search_incident_knowledge", "search_previous_issues"} ->
            [query |-> user_input, limit |-> DEFAULT_LIMIT,
             service |-> _context_value(context, "service"),
             severity |-> _context_value(context, "severity")]
      [] tool_name = "build_incident_brief" ->
            [query |-> user_input, incident_knowledge |-> <<>>, previous_issues |-> <<>>]
      [] OTHER -> EmptyDict

(***************************************************************************)
(* graph/nodes/plan.py                                                     *)
(***************************************************************************)
_is_incident_request(user_input, task_context) ==
    \/ ContainsAny(user_input, INCIDENT_HINTS)
    \/ Get(task_context, "severity", "") # ""
    \/ StartsWithP(Get(task_context, "priority", ""))

_build_deterministic_plan(user_input, task_context) ==
    <<[id |-> "analyze_request", tool |-> "summarize", status |-> "pending"],
      [id |-> "extract_entities", tool |-> "extract_entities", status |-> "pending"],
      [id |-> "classify_priority", tool |-> "classify_priority", status |-> "pending"]>>
    \o (IF _is_incident_request(user_input, task_context)
        THEN <<[id |-> "retrieve_incident_knowledge", tool |-> "search_incident_knowledge",
                status |-> "pending"],
               [id |-> "retrieve_previous_issues", tool |-> "search_previous_issues",
                status |-> "pending"],
               [id |-> "build_incident_brief", tool |-> "build_incident_brief",
                status |-> "pending"]>>
        ELSE <<>>)

\* raw_args is a dict; a caller that has none passes the empty dict (incoming = {})
_normalize_tool_args(tool_name, raw_args, user_input, task_context) ==
    LET defaults == default_args_for_tool(tool_name, user_input, task_context)
        incoming == raw_args
        merged == Merge(defaults, incoming)
    IN  IF tool_name \notin DOMAIN TOOL_ARG_KEYS THEN merged
        ELSE Restrict(merged, TOOL_ARG_KEYS[tool_name])

PopAt(s, k) == SubSeq(s, 1, k) \o SubSeq(s, k + 2, Len(s))
InsertAt(s, k, x) == SubSeq(s, 1, k) \o <<x>> \o SubSeq(s, k + 1, Len(s))

\* the indices (from 0, as in the code) of the steps of a tool set, in descending order
RECURSIVE IndicesDesc(_, _, _)
IndicesDesc(steps, tools, i) ==
    IF i = 0 THEN <<>>
    ELSE (IF steps[i].tool \in tools THEN <<i - 1>> ELSE <<>>) \o IndicesDesc(steps, tools, i - 1)

RECURSIVE MoveBriefs(_, _, _)
\* for brief_idx in reversed(brief_indices): pop, insert, target_index = insert_at
MoveBriefs(output, brief_indices_desc, target_index) ==
    IF brief_indices_desc = <<>> THEN output
    ELSE LET brief_idx == Head(brief_indices_desc)
             brief_step == output[brief_idx + 1]
             popped == PopAt(output, brief_idx)
             insert_at == Min(target_index + 1, Len(popped))
         IN  MoveBriefs(InsertAt(popped, insert_at, brief_step),
                        Tail(brief_indices_desc), insert_at)

_ensure_incident_brief_after_retrieval(steps) ==
    LET brief_indices == IndicesDesc(steps, {"build_incident_brief"}, Len(steps))
        retrieval_indices == IndicesDesc(steps, RETRIEVAL_TOOLS, Len(steps))
    IN  IF brief_indices = <<>> \/ retrieval_indices = <<>> THEN steps
        ELSE MoveBriefs(steps, brief_indices, Head(retrieval_indices))

RECURSIVE AppendMissing(_, _, _, _, _)
\* for tool_name in tools: if tool_name not in existing_tools: normalized.append(auto step)
AppendMissing(normalized, tools, existing_tools, user_input, task_context) ==
    IF tools = <<>> THEN normalized
    ELSE LET tool_name == Head(tools)
             step == [id |-> <<"auto", tool_name>>, tool |-> tool_name, status |-> "pending",
                      args |-> _normalize_tool_args(tool_name, EmptyDict, user_input, task_context)]
         IN  AppendMissing(IF tool_name \in existing_tools THEN normalized
                           ELSE Append(normalized, step),
                           Tail(tools), existing_tools, user_input, task_context)

\* the reordering and the final summarize of _enforce_minimum_plan_shape
FinishPlanShape(normalized, incident, user_input, task_context) ==
    With(SelectIdx(normalized, {i \in DOMAIN normalized : normalized[i].tool = "summarize"}, 1),
         LAMBDA summarize_steps :
    With(SelectIdx(normalized, {i \in DOMAIN normalized : normalized[i].tool # "summarize"}, 1),
         LAMBDA others :
    LET other_steps == IF incident THEN _ensure_incident_brief_after_retrieval(others) ELSE others
        last == summarize_steps[Len(summarize_steps)]
        final_summarize ==
            IF summarize_steps # <<>>
            THEN [last EXCEPT !.args =
                    Put(_normalize_tool_args("summarize", last.args, user_input, task_context),
                        "text", user_input)]
            ELSE [id |-> <<"auto", "summarize">>, tool |-> "summarize", status |-> "pending",
                  args |-> _normalize_tool_args("summarize", EmptyDict, user_input, task_context)]
    IN  other_steps \o <<final_summarize>>))

_enforce_minimum_plan_shape(plan_steps, user_input, task_context) ==
    With([idx \in 1..Len(plan_steps) |->
            [id |-> plan_steps[idx].id, tool |-> plan_steps[idx].tool,
             status |-> "pending",
             args |-> _normalize_tool_args(plan_steps[idx].tool, plan_steps[idx].args,
                                           user_input, task_context)]],
         LAMBDA first :
    LET existing_tools == {first[i].tool : i \in DOMAIN first}
        withCore == AppendMissing(first, CORE_TOOLS, existing_tools, user_input, task_context)
        incident == _is_incident_request(user_input, task_context)
    IN  With(IF incident
             THEN AppendMissing(withCore, INCIDENT_TOOLS, existing_tools,
                                user_input, task_context)
             ELSE withCore,
             LAMBDA normalized :
                FinishPlanShape(normalized, incident, user_input, task_context)))

(***************************************************************************)
(* Model completion adapter: tools/llm.py and graph/llm_planner.py         *)
(***************************************************************************)
\* what one HTTP request to the adapter does: the endpoint is unreachable or it answers
RequestOutcomes(adapter_state) ==
    IF adapter_state = "down" THEN {"http_error"} ELSE {"response"}

RECURSIVE _request_with_retry(_, _)
\* returns the first outcome that is not an error, else raises the last error
_request_with_retry(outcomes, attempt) ==
    IF outcomes[attempt] # "http_error" THEN [raised |-> FALSE, value |-> outcomes[attempt]]
    ELSE IF attempt = Len(outcomes) THEN [raised |-> TRUE, error |-> outcomes[attempt]]
    ELSE _request_with_retry(outcomes, attempt + 1)

\* does a call that retries up to max_retries times get a response
AdapterCallResults(adapter_state, max_retries) ==
    {_request_with_retry(o, 1) : o \in [1..(max_retries + 1) -> RequestOutcomes(adapter_state)]}

(***************************************************************************)
(* tools/deterministic.py                                                  *)
(***************************************************************************)
RECURSIVE _dedupe(_, _)
_dedupe(items, seen) ==
    IF items = <<>> THEN <<>>
    ELSE IF Lower(Head(items)) \in seen THEN _dedupe(Tail(items), seen)
    ELSE <<Head(items)>> \o _dedupe(Tail(items), seen \cup {Lower(Head(items))})

summarize(payload) ==
    [summary |-> SubSeq(payload.text, 1, Min(payload.max_words, Len(payload.text)))]

extract_entities(payload) ==
    With(payload.text, LAMBDA text :
    With(SelectIdx(text, {i \in DOMAIN text : IsCapitalised(text[i])}, 1), LAMBDA matches :
        [entities |-> _dedupe(matches, {})]))

\* explicit "Severity:"/"Priority:" labels first, then the urgency terms
classify_priority(payload) ==
    LET text == payload.text
        labelled(v) == \E i \in 1..(Len(text) - 1) :
                            text[i] \in {"Priority:", "Severity:"} /\ text[i + 1] = v
    IN  IF labelled("sev1") THEN [priority |-> "critical", reasons |-> <<"sev1">>]
        ELSE IF labelled("P1") \/ labelled("high")
             THEN [priority |-> "high", reasons |-> <<"explicit">>]
        ELSE IF ContainsAny(text, {"outage"}) THEN [priority |-> "critical", reasons |-> <<"outage">>]
        ELSE [priority |-> "low", reasons |-> <<"no urgency signals detected">>]

\* the brief: its summary counts the evidence, its citations are built from the evidence
build_incident_brief(payload) ==
    [summary |-> <<"Incident", "brief">>,
     knowledge_count |-> Len(payload.incident_knowledge),
     previous_count |-> Len(payload.previous_issues),
     citations |-> payload.incident_knowledge \o payload.previous_issues]

\* what the corpus can hold: the result lists of the two searches
PolicyHit == [title |-> <<"Runbook", "checkout">>, snippet |-> <<"escalate">>, source_id |-> "runbook-1"]
TicketHit == [title |-> <<"WLC-43">>, snippet |-> <<"latency">>, source_id |-> "WLC-43"]
IssueHit == [ticket |-> "WLC-43", summary |-> <<"checkout", "latency">>, doc_id |-> None,
             chunk_id |-> None]
KnowledgeResultLists == {<<>>, <<PolicyHit>>, <<TicketHit>>}
PreviousResultLists == {<<>>, <<IssueHit>>}

\* what the model can answer to a summarize and to a brief request
LlmSummaries(text) == {<<>>, text}
LlmBriefSummaries == {<<"LLM", "brief">>}

\* input_model.model_validate(args): the Field(ge=, le=) ranges of tools/schemas.py
ValidArgs(tool_name, args) ==
    /\ DOMAIN args \subseteq TOOL_ARG_KEYS[tool_name]
    /\ "max_words" \in DOMAIN args => args.max_words \in 1..300
    /\ "limit" \in DOMAIN args => args.limit \in 1..10
    /\ tool_name \in {"search_incident_knowledge", "search_previous_issues",
                      "build_incident_brief"} => "query" \in DOMAIN args
    /\ tool_name \notin {"search_incident_knowledge", "search_previous_issues",
                         "build_incident_brief"} => "text" \in DOMAIN args

\* SummarizeInput fills max_words with its default
WithInputDefaults(tool_name, args) ==
    IF tool_name = "summarize" /\ "max_words" \notin DOMAIN args
    THEN Put(args, "max_words", 60) ELSE args

Ok(output) == [kind |-> "ok", output |-> output]
Err(error) == [kind |-> "error", error |-> error]

\* model-backed summarize of tools/llm.py: the request, then the parse of the answer
llm_summarize(payload, adapter_state) ==
    UNION {IF r.raised THEN {Err("LLM tool request failed")}
           ELSE {Ok([summary |-> s]) : s \in LlmSummaries(payload.text)}
           : r \in AdapterCallResults(adapter_state, llm_max_retries)}

\* model-backed build_incident_brief of tools/llm.py
llm_incident_brief(payload, adapter_state) ==
    UNION {IF r.raised THEN {Err("LLM tool request failed")}
           ELSE {Ok([summary |-> s, knowledge_count |-> Len(payload.incident_knowledge),
                     previous_count |-> Len(payload.previous_issues), citations |-> <<>>])
                 : s \in LlmBriefSummaries}
           : r \in AdapterCallResults(adapter_state, llm_max_retries)}

\* what spec.fn(payload) can do on the worker: its outputs, or an exception
FnOutcomes(tool_name, implementation, payload, adapter_state) ==
    CASE tool_name = "summarize" /\ implementation = "llm" -> llm_summarize(payload, adapter_state)
      [] tool_name = "build_incident_brief" /\ implementation = "llm" ->
            llm_incident_brief(payload, adapter_state)
      [] tool_name = "summarize" -> {Ok(summarize(payload))}
      [] tool_name = "extract_entities" -> {Ok(extract_entities(payload))}
      [] tool_name = "classify_priority" -> {Ok(classify_priority(payload))}
      [] tool_name = "extract_deadlines" -> {Ok([deadlines |-> <<>>])}
      [] tool_name = "extract_action_items" -> {Ok([action_items |-> <<payload.text>>])}
      [] tool_name = "search_incident_knowledge" ->
            {Ok([results |-> r]) : r \in KnowledgeResultLists}
      [] tool_name = "search_previous_issues" ->
            {Ok([results |-> r]) : r \in PreviousResultLists}
      [] OTHER -> {Ok(build_incident_brief(payload))}

(***************************************************************************)
(* tools/registry.py                                                       *)
(***************************************************************************)
build_registry == [t \in ALLOWED_TOOLS |-> [implementation |-> "deterministic"]]

\* the registry with summarize and build_incident_brief replaced by the model-backed tools
llm_registry ==
    [t \in ALLOWED_TOOLS |->
        IF t \in {"summarize", "build_incident_brief"}
        THEN [implementation |-> "llm"] ELSE [implementation |-> "deterministic"]]

\* value.lower().strip(), for the mode and provider names of the model
LowerStrip(v) ==
    CASE v \in {"llm", "LLM", " Llm "} -> "llm"
      [] v \in {"openai", "OpenAI", " openai "} -> "openai"
      [] v \in {"deterministic", "Deterministic"} -> "deterministic"
      [] OTHER -> v

\* build_openai_summarize_tool, build_openai_incident_brief_tool: "if not api_key: raise"
BuildToolRaises(api_key) == api_key = ""

\* a resolution that hands out the model-backed registry whenever llm is asked for
resolve_registry_unchecked(requested_mode, provider, api_key) ==
    IF LowerStrip(requested_mode) # "llm"
    THEN [registry |-> build_registry, requested_mode |-> LowerStrip(requested_mode),
          effective_mode |-> "deterministic", fallback_reason |-> None]
    ELSE [registry |-> llm_registry, requested_mode |-> LowerStrip(requested_mode),
          effective_mode |-> "llm", fallback_reason |-> None]

resolve_registry(requested_mode, provider, api_key) ==
    LET normalized_mode == LowerStrip(requested_mode)
    IN  IF normalized_mode # "llm"
        THEN [registry |-> build_registry, requested_mode |-> normalized_mode,
              effective_mode |-> "deterministic", fallback_reason |-> None]
        ELSE IF LowerStrip(provider) # "openai"
        THEN [registry |-> build_registry, requested_mode |-> normalized_mode,
              effective_mode |-> "deterministic",
              fallback_reason |-> "unsupported executor provider"]
        ELSE IF api_key = ""
        THEN [registry |-> build_registry, requested_mode |-> normalized_mode,
              effective_mode |-> "deterministic",
              fallback_reason |-> "OPENAI_API_KEY is missing for executor llm mode"]
        ELSE IF BuildToolRaises(api_key)
        THEN [registry |-> build_registry, requested_mode |-> normalized_mode,
              effective_mode |-> "deterministic",
              fallback_reason |-> "OPENAI_API_KEY is missing"]
        ELSE [registry |-> llm_registry, requested_mode |-> normalized_mode,
              effective_mode |-> "llm", fallback_reason |-> None]

(***************************************************************************)
(* tools/gateway.py, as a function of what each attempt's worker does      *)
(***************************************************************************)
TimedOut == Err("timed out")

\* one attempt: lookup, input validation, the worker, output validation
_execute_once(registry, tool_name, args, worker_outcome) ==
    IF tool_name \notin DOMAIN registry THEN Err("Unknown tool")
    ELSE IF ~ValidArgs(tool_name, args) THEN Err("validation error")
    ELSE worker_outcome

\* time.perf_counter() differences: an attempt that times out lasts one timeout period,
\* any other attempt is over at once
_duration_ms(worker_outcomes, attempts) ==
    Cardinality({i \in 1..attempts : worker_outcomes[i] = TimedOut})

RECURSIVE ExecuteLoop(_, _, _, _, _, _)
\* for attempt in range(self.max_retries + 1): try ... except ...
ExecuteLoop(registry, tool_name, args, worker_outcomes, max_retries, attempt) ==
    LET implementation ==
            IF tool_name \in DOMAIN registry THEN registry[tool_name].implementation
            ELSE "unknown"
        once == _execute_once(registry, tool_name, args, worker_outcomes[attempt + 1])
    IN  IF once.kind = "ok"
        THEN [tool |-> tool_name, status |-> "ok", output |-> once.output,
              implementation |-> implementation, attempts |-> attempt + 1,
              duration_ms |-> _duration_ms(worker_outcomes, attempt + 1)]
        ELSE IF attempt < max_retries
        THEN ExecuteLoop(registry, tool_name, args, worker_outcomes, max_retries, attempt + 1)
        ELSE [tool |-> tool_name, status |-> "failed", error |-> once.error,
              implementation |-> implementation, attempts |-> attempt + 1,
              duration_ms |-> _duration_ms(worker_outcomes, attempt + 1)]

\* every result ToolExecutor.execute can return for one call; the attempts of a slow
\* call can time out
GatewayResults(registry, tool_name, args, payload, max_retries, adapter_state, slow) ==
    LET impl == IF tool_name \in DOMAIN registry THEN registry[tool_name].implementation
                ELSE "unknown"
        worker == FnOutcomes(tool_name, impl, payload, adapter_state)
                    \cup (IF slow THEN {TimedOut} ELSE {})
    IN  {ExecuteLoop(registry, tool_name, args, w, max_retries, 0) :
            w \in [1..(max_retries + 1) -> worker]}

(***************************************************************************)
(* graph/nodes/execute.py                                                  *)
(***************************************************************************)
_tool_result_rows(tool_results, tool_name) ==
    Get(Get(Get(tool_results, tool_name, EmptyDict), "data", EmptyDict), "results", <<>>)

\* step is the plan step: its args when it has a dict of them, else the tool's defaults
_resolve_step_args(tool_name, step, user_input, task_context, tool_results) ==
    LET args == IF "args" \in DOMAIN step THEN step.args
                ELSE default_args_for_tool(tool_name, user_input, task_context)
    IN  IF tool_name # "build_incident_brief" THEN args
        ELSE Merge(args,
                   [query |-> IF Get(args, "query", <<>>) # <<>> THEN args.query ELSE user_input,
                    incident_knowledge |->
                        _tool_result_rows(tool_results, "search_incident_knowledge"),
                    previous_issues |-> _tool_result_rows(tool_results, "search_previous_issues")])

\* an Execute that never skips a step
_already_ok_never(tool_results, tool_name) == FALSE

\* existing = tool_results.get(tool_name); existing.get("status") == "ok"
_already_ok(tool_results, tool_name) ==
    Get(Get(tool_results, tool_name, EmptyDict), "status", None) = "ok"

\* the tool_results entry Execute writes for a gateway result
ResultEntry(result) ==
    IF result.status = "ok"
    THEN [status |-> "ok", data |-> result.output, implementation |-> result.implementation,
          attempts |-> result.attempts, duration_ms |-> result.duration_ms]
    ELSE [status |-> "failed", error |-> result.error, implementation |-> result.implementation,
          attempts |-> result.attempts, duration_ms |-> result.duration_ms]

\* an event that is always tagged with the first iteration
ExecutionEvent_first_iteration(iteration, tool_name, result) ==
    [iteration |-> 0, tool |-> tool_name, status |-> result.status,
     implementation |-> result.implementation, attempts |-> result.attempts,
     duration_ms |-> result.duration_ms]

ExecutionEvent(iteration, tool_name, result) ==
    [iteration |-> iteration, tool |-> tool_name, status |-> result.status,
     implementation |-> result.implementation, attempts |-> result.attempts,
     duration_ms |-> result.duration_ms]

RECURSIVE RunSteps(_, _, _, _)
\* for step in plan_steps: skip an ok tool, else call the gateway and record the result;
\* the set of what the loop can leave behind when at most MaxSlowCalls calls of the run have
\* an attempt that times out
RunSteps(steps, i, acc, env) ==
    IF i > Len(steps) THEN {acc}
    ELSE LET tool_name == steps[i].tool
         IN  IF _already_ok(acc.tool_results, tool_name) THEN RunSteps(steps, i + 1, acc, env)
             ELSE
             With(_resolve_step_args(tool_name, steps[i], env.user_input, env.task_context,
                                     acc.tool_results), LAMBDA args :
             With(WithInputDefaults(tool_name, args), LAMBDA payload :
                UNION {
                    RunSteps(steps, i + 1, next, env)
                    : next \in
                        {[tool_results |-> Put(acc.tool_results, tool_name, ResultEntry(r)),
                          events |-> Append(acc.events,
                                            ExecutionEvent(env.iteration, tool_name, r)),
                          calls |-> Append(acc.calls, [tool |-> tool_name, status |-> r.status]),
                          slow_calls |-> acc.slow_calls + (IF r.duration_ms > 0 THEN 1 ELSE 0)]
                         : r \in GatewayResults(env.registry, tool_name, args, payload,
                                                tool_max_retries, env.adapter,
                                                acc.slow_calls < MaxSlowCalls)}}))

(***************************************************************************)
(* graph/nodes/verify.py                                                   *)
(***************************************************************************)
_summary_entity_consistency_issues(tool_results) ==
    LET summary == Get(Get(Get(tool_results, "summarize", EmptyDict), "data", EmptyDict),
                       "summary", <<>>)
        entities == Get(Get(Get(tool_results, "extract_entities", EmptyDict), "data", EmptyDict),
                        "entities", <<>>)
        missing_entities ==
            SelectIdx(entities, {i \in DOMAIN entities : ~ContainsWord(summary, entities[i])}, 1)
        threshold == Max(1, Len(entities) \div 2)
    IN  IF IsBlank(summary) THEN <<"missing_or_empty_summary">>
        ELSE IF entities = <<>> THEN <<>>
        ELSE IF Len(missing_entities) > threshold
             THEN <<<<"summary_missing_entities", SubSeq(missing_entities, 1,
                                                          Min(5, Len(missing_entities)))>>>>
        ELSE <<>>

\* str(value).strip() is not empty: str(None) is "None", which is not empty
StrTruthy(v) == v \notin {"", " "}

_incident_citation_quality_failures(knowledge_results, previous_issue_results) ==
    LET present(item, key) == StrTruthy(Get(item, key, ""))
        has_incident_identifier ==
            \E i \in DOMAIN knowledge_results : present(knowledge_results[i], "source_id")
        has_incident_snippet ==
            \E i \in DOMAIN knowledge_results : Get(knowledge_results[i], "snippet", <<>>) # <<>>
        has_previous_identifier ==
            \E i \in DOMAIN previous_issue_results :
                \/ present(previous_issue_results[i], "ticket")
                \/ present(previous_issue_results[i], "doc_id")
                \/ present(previous_issue_results[i], "chunk_id")
        has_previous_snippet ==
            \E i \in DOMAIN previous_issue_results :
                Get(previous_issue_results[i], "summary", <<>>) # <<>>
    IN  (IF knowledge_results # <<>>
         THEN (IF has_incident_identifier THEN <<>> ELSE <<"missing_incident_citation_metadata">>)
              \o (IF has_incident_snippet THEN <<>> ELSE <<"missing_incident_snippet_evidence">>)
         ELSE <<>>)
        \o
        (IF previous_issue_results # <<>>
         THEN (IF has_previous_identifier THEN <<>>
               ELSE <<"missing_previous_issue_citation_metadata">>)
              \o (IF has_previous_snippet THEN <<>>
                  ELSE <<"missing_previous_issue_snippet_evidence">>)
         ELSE <<>>)

\* a policy check that any knowledge hit satisfies
HasPolicyCitation_any(knowledge_results) == knowledge_results # <<>>

\* any(term in title.lower() for term in POLICY_TERMS), for some knowledge hit
HasPolicyCitation(knowledge_results) ==
    \E i \in DOMAIN knowledge_results :
        ContainsAny(Get(knowledge_results[i], "title", <<>>), POLICY_TERMS)

\* tool_results.get(tool, {}).get("data", {}).get("results", [])
ResultRows(tool_results, tool_name) ==
    Get(Get(Get(tool_results, tool_name, EmptyDict), "data", EmptyDict), "results", <<>>)

_incident_gate_result(user_input, tool_results) ==
    LET knowledge_results == ResultRows(tool_results, "search_incident_knowledge")
        previous_issue_results == ResultRows(tool_results, "search_previous_issues")
        has_policy_citation == HasPolicyCitation(knowledge_results)
        failures ==
            (IF knowledge_results = <<>> THEN <<"missing_incident_knowledge_evidence">> ELSE <<>>)
            \o (IF previous_issue_results = <<>> THEN <<"missing_previous_issue_evidence">>
                ELSE <<>>)
            \o _incident_citation_quality_failures(knowledge_results, previous_issue_results)
            \o (IF has_policy_citation THEN <<>> ELSE <<"missing_policy_citation">>)
    IN  IF ~ContainsAny(user_input, INCIDENT_HINTS)
        THEN [required |-> FALSE, passed |-> TRUE, failures |-> <<>>]
        ELSE [required |-> TRUE, passed |-> failures = <<>>, failures |-> failures]

\* a Verify that counts every call
NextRetryCount_always(retry_count, passed) == retry_count + 1

\* retry_count + (0 if passed else 1)
NextRetryCount(retry_count, passed) == retry_count + (IF passed THEN 0 ELSE 1)

\* a verdict that does not look at the failed tools
VerificationPassed_lenient(missing, failed, gate_failures) ==
    missing = <<>> /\ gate_failures = <<>>

\* passed = not missing and not failed and not gate_failures
VerificationPassed(missing, failed, gate_failures) ==
    missing = <<>> /\ failed = {} /\ gate_failures = <<>>

\* the verification record of verify.run; failed_tools is kept as a set, the order of the
\* dict's keys is not modelled
VerifyResult(user_input, tool_results, retry_count, retry_budget) ==
    LET missing == SelectIdx(REQUIRED_TOOLS,
                             {i \in DOMAIN REQUIRED_TOOLS :
                                REQUIRED_TOOLS[i] \notin DOMAIN tool_results}, 1)
        failed == {t \in DOMAIN tool_results : Get(tool_results[t], "status", None) = "failed"}
        consistency_issues == _summary_entity_consistency_issues(tool_results)
        incident_gate == _incident_gate_result(user_input, tool_results)
        gate_failures ==
            (IF consistency_issues # <<>> THEN <<"summary_entity_inconsistency">> ELSE <<>>)
            \o (IF incident_gate.required /\ ~incident_gate.passed THEN incident_gate.failures
                ELSE <<>>)
        passed == VerificationPassed(missing, failed, gate_failures)
        count == NextRetryCount(retry_count, passed)
    IN  [passed |-> passed, missing_tools |-> missing, failed_tools |-> failed,
         gate_failures |-> gate_failures, consistency_issues |-> consistency_issues,
         incident_gate |-> incident_gate,
         retry |-> [count |-> count, budget |-> retry_budget,
                    remaining |-> Max(0, retry_budget - count),
                    budget_exhausted |-> count >= retry_budget]]

(***************************************************************************)
(* graph/workflow.py                                                       *)
(***************************************************************************)
\* an edge that compares with <=
_should_retry_inclusive(verification_, retry_count_, retry_budget_) ==
    IF Get(verification_, "passed", FALSE) THEN "done"
    ELSE IF retry_count_ <= retry_budget_ THEN "retry"
    ELSE "done"

\* an edge that retries two failures past the budget
_should_retry_late(verification_, retry_count_, retry_budget_) ==
    IF Get(verification_, "passed", FALSE) THEN "done"
    ELSE IF retry_count_ < retry_budget_ + 2 THEN "retry"
    ELSE "done"

_should_retry(verification_, retry_count_, retry_budget_) ==
    IF Get(verification_, "passed", FALSE) THEN "done"
    ELSE IF retry_count_ < retry_budget_ THEN "retry"
    ELSE "done"

(***************************************************************************)
(* graph/nodes/finalize.py                                                 *)
(***************************************************************************)
FinalOutput(tool_results, verification_) ==
    LET summary == Get(Get(Get(tool_results, "summarize", EmptyDict), "data", EmptyDict),
                       "summary", <<"No", "summary", "available.">>)
        brief_data == Get(Get(tool_results, "build_incident_brief", EmptyDict), "data", EmptyDict)
    IN  IF ~Get(verification_, "passed", FALSE)
        THEN [kind |-> "issues",
              missing |-> Get(verification_, "missing_tools", <<>>),
              failed |-> Get(verification_, "failed_tools", {}),
              gates |-> Get(verification_, "gate_failures", <<>>),
              retry_budget_exhausted |->
                Get(Get(verification_, "retry", EmptyDict), "budget_exhausted", FALSE)]
        ELSE IF Get(brief_data, "summary", <<>>) # <<>>
        THEN [kind |-> "brief", brief |-> brief_data]
        ELSE [kind |-> "summary", text |-> summary]

(***************************************************************************)
(* What the model can plan: the plans build_llm_plan can hand back         *)
(***************************************************************************)
LlmPlanA(user_input_) ==
    <<[id |-> "llm_1", tool |-> "extract_entities", args |-> [text |-> user_input_]],
      [id |-> "llm_2", tool |-> "summarize", args |-> [text |-> user_input_, max_words |-> 40]]>>

LlmPlanB(user_input_) ==
    <<[id |-> None, tool |-> "summarize", args |-> [text |-> <<"report">>, tone |-> "brief"]],
      [id |-> None, tool |-> "build_incident_brief", args |-> EmptyDict],
      [id |-> None, tool |-> "search_previous_issues", args |-> [limit |-> 5]],
      [id |-> None, tool |-> "extract_entities", args |-> [text |-> <<"PAYMENTS", "report">>]],
      [id |-> None, tool |-> "extract_entities", args |-> EmptyDict]>>

LlmPlans(user_input_) == {LlmPlanA(user_input_), LlmPlanB(user_input_)}

\* the parsed content of a response: content that fails _parse_plan or
\* _validate_allowed_tools, an empty plan, or a plan
PlannerContents(user_input_) ==
    {[kind |-> "invalid", error |-> e] :
        e \in {"Unsupported tool from LLM planner", "LLM planner returned an empty plan"}}
    \cup {[kind |-> "plan", steps |-> p] : p \in LlmPlans(user_input_)}

\* build_llm_plan: id = step.id or f"llm_step_{idx + 1}"
build_llm_plan_steps(plan) ==
    [idx \in 1..Len(plan) |->
        [id |-> IF plan[idx].id = None THEN <<"llm_step", idx>> ELSE plan[idx].id,
         tool |-> plan[idx].tool, status |-> "pending", args |-> plan[idx].args]]

\* _build_llm_plan of plan.py with build_llm_plan of llm_planner.py: the steps, or the
\* exception raised
_build_llm_plan(user_input_, provider, api_key, adapter_state) ==
    IF provider # "openai" THEN {[raised |-> TRUE, error |-> "Unsupported LLM provider"]}
    ELSE IF api_key = "" THEN {[raised |-> TRUE, error |-> "OPENAI_API_KEY is missing"]}
    ELSE UNION {IF r.raised THEN {[raised |-> TRUE, error |-> "LLM planner request failed"]}
                ELSE {IF c.kind = "invalid" THEN [raised |-> TRUE, error |-> c.error]
                      ELSE [raised |-> FALSE, steps |-> build_llm_plan_steps(c.steps)]
                      : c \in PlannerContents(user_input_)}
                : r \in AdapterCallResults(adapter_state, llm_max_retries)}

\* a fallback that reports the mode it has just switched to
PlanFallback_stale(user_input_, task_context_, telemetry_, error) ==
    [plan_steps |-> _build_deterministic_plan(user_input_, task_context_),
     mode |-> "deterministic",
     telemetry |-> Put(telemetry_, "planner",
                       [requested_mode |-> "deterministic", effective_mode |-> "deterministic",
                        fallback_used |-> FALSE])]

\* the except branch of plan.run
PlanFallback(user_input_, task_context_, telemetry_, error) ==
    [plan_steps |-> _build_deterministic_plan(user_input_, task_context_),
     mode |-> "deterministic",
     telemetry |-> Put(telemetry_, "planner",
                       [requested_mode |-> "llm", effective_mode |-> "deterministic",
                        fallback_used |-> TRUE, fallback_reason |-> error])]

\* the patch plan.run returns, for one outcome of the try block
PlanPatch(requested_mode, built, user_input_, task_context_, telemetry_) ==
    IF requested_mode = "llm"
    THEN IF built.raised
         THEN PlanFallback(user_input_, task_context_, telemetry_, built.error)
         ELSE [plan_steps |-> _enforce_minimum_plan_shape(built.steps, user_input_, task_context_),
               telemetry |-> Put(telemetry_, "planner",
                                 [requested_mode |-> "llm", effective_mode |-> "llm",
                                  fallback_used |-> FALSE, provider |-> llm_provider,
                                  model |-> "gpt-4o-mini"])]
    ELSE [plan_steps |-> _build_deterministic_plan(user_input_, task_context_),
          telemetry |-> Put(telemetry_, "planner",
                            [requested_mode |-> requested_mode,
                             effective_mode |-> "deterministic", fallback_used |-> FALSE])]

(***************************************************************************)
(* State                                                                   *)
(***************************************************************************)
VARIABLES
    pc,              \* the node the graph runs next, "END" after Finalize
    task_id, user_input, task_context, mode, executor_mode,
    plan_steps, tool_results, verification, final_output,
    retry_count, retry_budget, telemetry,
    openai_api_key,  \* settings.resolved_openai_api_key()
    adapter,         \* the completion endpoint: "down" fails every request, "up" answers
    gateway_calls,   \* history: every call of ToolExecutor.execute, with its status
    slow_calls,      \* history: how many gateway calls had an attempt that timed out
    runs,            \* history: how often each node has run
    plan_raised,     \* history: the try block of the last Plan raised
    gw_pc, gw_registered, gw_args_valid, gw_max_retries, gw_backoff_s,
    gw_attempt, gw_attempts, gw_error, gw_final_error, gw_running,
    gw_log, gw_sleeps, gw_result,
    fn_name,         \* the function applied on its own, "none" before any is
    fn_in,           \* its arguments
    fn_out           \* what it returned

state_vars == <<task_id, user_input, task_context, mode, executor_mode, plan_steps,
                tool_results, verification, final_output, retry_count, retry_budget,
                telemetry>>
env_vars == <<openai_api_key, adapter>>
hist_vars == <<gateway_calls, slow_calls, runs, plan_raised>>
gw_vars == <<gw_pc, gw_registered, gw_args_valid, gw_max_retries, gw_backoff_s,
             gw_attempt, gw_attempts, gw_error, gw_final_error, gw_running,
             gw_log, gw_sleeps, gw_result>>
fn_vars == <<fn_name, fn_in, fn_out>>
vars == <<pc, state_vars, env_vars, hist_vars, gw_vars, fn_vars>>

UserInputs == {<<"Prepare", "report">>, <<"Investigate", "incident", "in", "Payments">>}
Contexts == {EmptyDict, [severity |-> "sev1"]}
Nodes == {"plan", "retrieve", "execute", "verify", "finalize"}

\* no gateway call is being stepped through
GwIdle ==
    /\ gw_pc = "idle" /\ gw_registered = TRUE /\ gw_args_valid = TRUE
    /\ gw_max_retries = 0 /\ gw_backoff_s = 0 /\ gw_attempt = 0 /\ gw_attempts = 0
    /\ gw_error = None /\ gw_final_error = None /\ gw_running = {}
    /\ gw_log = <<>> /\ gw_sleeps = <<>> /\ gw_result = EmptyDict

\* no function is applied on its own
FnIdle == fn_name = "none" /\ fn_in = EmptyDict /\ fn_out = EmptyDict

\* graph/state.py initial_state, for any request and any settings
Init ==
    /\ pc = "plan"
    /\ task_id = "t1"
    /\ user_input \in UserInputs
    /\ task_context \in Contexts
    /\ mode \in {"llm", "deterministic"}
    /\ executor_mode \in {"llm", "deterministic"}
    /\ plan_steps = <<>>
    /\ tool_results = EmptyDict
    /\ verification = EmptyDict
    /\ final_output = None
    /\ retry_count = 0
    /\ retry_budget \in 0..MaxBudget
    /\ telemetry = EmptyDict
    /\ openai_api_key \in {"", "sk-test"}
    /\ adapter \in IF openai_api_key = "" THEN {"down"} ELSE {"down", "up"}
    /\ gateway_calls = <<>>
    /\ slow_calls = 0
    /\ runs = [n \in Nodes |-> 0]
    /\ plan_raised = FALSE
    /\ GwIdle
    /\ FnIdle

Ran(node) == runs' = [runs EXCEPT ![node] = @ + 1]

(***************************************************************************)
(* The nodes of graph/workflow.py                                          *)
(***************************************************************************)
Plan ==
    /\ pc = "plan"
    /\ \E built \in IF mode = "llm"
                    THEN _build_llm_plan(user_input, llm_provider, openai_api_key, adapter)
                    ELSE {[raised |-> FALSE, steps |-> <<>>]} :
         LET patch == PlanPatch(mode, built, user_input, task_context, telemetry)
         IN  /\ plan_steps' = patch.plan_steps
             /\ telemetry' = patch.telemetry
             /\ mode' = IF "mode" \in DOMAIN patch THEN patch.mode ELSE mode
             /\ plan_raised' = (mode = "llm" /\ built.raised)
    /\ pc' = "retrieve"
    /\ Ran("plan")
    /\ UNCHANGED <<task_id, user_input, task_context, executor_mode, tool_results, verification,
                   final_output, retry_count, retry_budget, env_vars, gateway_calls,
                   slow_calls, gw_vars, fn_vars>>

Retrieve ==
    /\ pc = "retrieve"
    /\ LET retrieval_tools ==
            SelectIdx([i \in DOMAIN plan_steps |-> plan_steps[i].tool],
                      {i \in DOMAIN plan_steps : plan_steps[i].tool \in RETRIEVAL_TOOLS}, 1)
       IN  telemetry' = Put(telemetry, "retrieval",
                            [planned_retrieval_tools |-> retrieval_tools,
                             count |-> Len(retrieval_tools)])
    /\ pc' = "execute"
    /\ Ran("retrieve")
    /\ UNCHANGED <<task_id, user_input, task_context, mode, executor_mode, plan_steps,
                   tool_results, verification, final_output, retry_count, retry_budget,
                   env_vars, gateway_calls, slow_calls, plan_raised, gw_vars, fn_vars>>

Execute ==
    /\ pc = "execute"
    /\ LET resolution == resolve_registry(executor_mode, llm_provider, openai_api_key)
           telemetry1 == Put(telemetry, "executor",
                             [requested_mode |-> resolution.requested_mode,
                              effective_mode |-> resolution.effective_mode,
                              fallback_used |->
                                resolution.effective_mode # resolution.requested_mode,
                              fallback_reason |-> resolution.fallback_reason])
           history == Get(Get(telemetry, "tool_execution", EmptyDict), "events", <<>>)
           env == [registry |-> resolution.registry, user_input |-> user_input,
                   task_context |-> task_context, iteration |-> retry_count,
                   adapter |-> adapter]
       IN  \E out \in RunSteps(plan_steps, 1,
                               [tool_results |-> tool_results, events |-> history,
                                calls |-> gateway_calls, slow_calls |-> slow_calls], env) :
                /\ tool_results' = out.tool_results
                /\ gateway_calls' = out.calls
                /\ slow_calls' = out.slow_calls
                /\ telemetry' =
                     Put(telemetry1, "tool_execution",
                         [events |-> out.events,
                          summary |->
                            [executed_tools |-> Len(out.events),
                             failed_tools |->
                                Cardinality({i \in DOMAIN out.events :
                                                out.events[i].status # "ok"})]])
    /\ pc' = "verify"
    /\ Ran("execute")
    /\ UNCHANGED <<task_id, user_input, task_context, mode, executor_mode, plan_steps,
                   verification, final_output, retry_count, retry_budget, env_vars,
                   plan_raised, gw_vars, fn_vars>>

\* verify.run, then the conditional edge out of "verify"
Verify ==
    /\ pc = "verify"
    /\ verification' = VerifyResult(user_input, tool_results, retry_count, retry_budget)
    /\ retry_count' = verification'.retry.count
    /\ pc' = IF _should_retry(verification', retry_count', retry_budget) = "retry"
             THEN "plan" ELSE "finalize"
    /\ Ran("verify")
    /\ UNCHANGED <<task_id, user_input, task_context, mode, executor_mode, plan_steps,
                   tool_results, final_output, retry_budget, telemetry, env_vars,
                   gateway_calls, slow_calls, plan_raised, gw_vars, fn_vars>>

Finalize ==
    /\ pc = "finalize"
    /\ final_output' = FinalOutput(tool_results, verification)
    /\ pc' = "END"
    /\ Ran("finalize")
    /\ UNCHANGED <<task_id, user_input, task_context, mode, executor_mode, plan_steps,
                   tool_results, verification, retry_count, retry_budget, telemetry, env_vars,
                   gateway_calls, slow_calls, plan_raised, gw_vars, fn_vars>>

Next == Plan \/ Retrieve \/ Execute \/ Verify \/ Finalize

Spec == Init /\ [][Next]_vars

(***************************************************************************)
(* tools/gateway.py step by step: one call of ToolExecutor.execute, with   *)
(* the worker thread of each attempt                                       *)
(***************************************************************************)
\* the graph is not running
PipeIdle ==
    /\ pc = "idle" /\ task_id = "t1" /\ user_input = <<>> /\ task_context = EmptyDict
    /\ mode = "deterministic" /\ executor_mode = "deterministic" /\ plan_steps = <<>>
    /\ tool_results = EmptyDict /\ verification = EmptyDict /\ final_output = None
    /\ retry_count = 0 /\ retry_budget = 0 /\ telemetry = EmptyDict
    /\ openai_api_key = "" /\ adapter = "down" /\ gateway_calls = <<>> /\ slow_calls = 0
    /\ runs = [n \in Nodes |-> 0] /\ plan_raised = FALSE

\* execute(tool_name, args) is entered: any tool name, any args, any settings
GwInit ==
    /\ PipeIdle
    /\ FnIdle
    /\ gw_pc = "attempt"
    /\ gw_registered \in BOOLEAN
    /\ gw_args_valid \in BOOLEAN
    /\ gw_max_retries \in 0..MaxGwRetries
    /\ gw_backoff_s \in {0, 1}
    /\ gw_attempt = 0
    /\ gw_attempts = 0
    /\ gw_error = None
    /\ gw_final_error = "unknown error"
    /\ gw_running = {}
    /\ gw_log = <<>>
    /\ gw_sleeps = <<>>
    /\ gw_result = EmptyDict

pipe_vars == <<pc, state_vars, env_vars, hist_vars>>

\* a backoff that does not look at the attempt number
ShouldSleep_always(attempt, max_retries, backoff_s) == backoff_s > 0

\* if attempt < self.max_retries and self.backoff_s > 0
ShouldSleep(attempt, max_retries, backoff_s) == attempt < max_retries /\ backoff_s > 0

\* a pool whose exit leaves the worker behind
PoolExitWaits_never == FALSE

\* "with ThreadPoolExecutor(max_workers=1) as pool": leaving the block joins the worker
PoolExitWaits == TRUE

\* the exception of an attempt reaches "except Exception" of execute
Raise(error) ==
    /\ gw_error' = error
    /\ gw_log' = Append(gw_log, error)
    /\ gw_pc' = "except"

\* attempts = attempt + 1, then _execute_once up to pool.submit
GwStartAttempt ==
    /\ gw_pc = "attempt"
    /\ gw_attempts' = gw_attempt + 1
    /\ IF ~gw_registered THEN Raise("Unknown tool") /\ UNCHANGED gw_running
       ELSE IF ~gw_args_valid THEN Raise("validation error") /\ UNCHANGED gw_running
       ELSE /\ gw_running' = gw_running \cup {gw_attempt}
            /\ gw_pc' = "waiting"
            /\ UNCHANGED <<gw_error, gw_log>>
    /\ UNCHANGED <<pipe_vars, fn_vars, gw_registered, gw_args_valid, gw_max_retries, gw_backoff_s,
                   gw_attempt, gw_final_error, gw_sleeps, gw_result>>

\* a worker ends: with a valid output, an output that fails output_model, or an exception
GwWorkerDone ==
    /\ \E w \in gw_running, outcome \in {"ok", "output schema error", "tool exception"} :
        /\ gw_running' = gw_running \ {w}
        /\ IF gw_pc = "waiting" /\ w = gw_attempt
           THEN IF outcome = "ok"
                THEN /\ gw_pc' = "returned"
                     /\ gw_log' = Append(gw_log, "ok")
                     /\ gw_result' = [status |-> "ok", attempts |-> gw_attempts]
                     /\ UNCHANGED gw_error
                ELSE Raise(outcome) /\ UNCHANGED gw_result
           ELSE IF gw_pc = "shutdown" /\ w = gw_attempt
           THEN /\ gw_pc' = "except"
                /\ UNCHANGED <<gw_error, gw_log, gw_result>>
           ELSE UNCHANGED <<gw_pc, gw_error, gw_log, gw_result>>
    /\ UNCHANGED <<pipe_vars, fn_vars, gw_registered, gw_args_valid, gw_max_retries, gw_backoff_s,
                   gw_attempt, gw_attempts, gw_final_error, gw_sleeps>>

\* future.result(timeout=...) raises TimeoutError inside the with block
GwTimeout ==
    /\ gw_pc = "waiting"
    /\ gw_error' = "timed out"
    /\ gw_log' = Append(gw_log, "timed out")
    /\ gw_pc' = IF PoolExitWaits THEN "shutdown" ELSE "except"
    /\ UNCHANGED <<pipe_vars, fn_vars, gw_registered, gw_args_valid, gw_max_retries, gw_backoff_s,
                   gw_attempt, gw_attempts, gw_final_error, gw_running, gw_sleeps, gw_result>>

\* except Exception: final_error = str(exc), then sleep, the next attempt or the return
GwExcept ==
    /\ gw_pc = "except"
    /\ gw_final_error' = gw_error
    /\ IF ShouldSleep(gw_attempt, gw_max_retries, gw_backoff_s)
       THEN gw_pc' = "sleeping" /\ UNCHANGED <<gw_attempt, gw_result>>
       ELSE IF gw_attempt < gw_max_retries
       THEN gw_pc' = "attempt" /\ gw_attempt' = gw_attempt + 1 /\ UNCHANGED gw_result
       ELSE /\ gw_pc' = "returned"
            /\ gw_result' = [status |-> "failed", error |-> gw_error, attempts |-> gw_attempts]
            /\ UNCHANGED gw_attempt
    /\ UNCHANGED <<pipe_vars, fn_vars, gw_registered, gw_args_valid, gw_max_retries, gw_backoff_s,
                   gw_attempts, gw_error, gw_running, gw_log, gw_sleeps>>

\* time.sleep(self.backoff_s) returns
GwSleep ==
    /\ gw_pc = "sleeping"
    /\ gw_sleeps' = Append(gw_sleeps, gw_attempt)
    /\ gw_attempt' = gw_attempt + 1
    /\ gw_pc' = "attempt"
    /\ UNCHANGED <<pipe_vars, fn_vars, gw_registered, gw_args_valid, gw_max_retries, gw_backoff_s,
                   gw_attempts, gw_error, gw_final_error, gw_running, gw_log, gw_result>>

GwNext == GwStartAttempt \/ GwWorkerDone \/ GwTimeout \/ GwExcept \/ GwSleep

GwSpec == GwInit /\ [][GwNext]_vars

(***************************************************************************)
(* retrieval/incident_knowledge.py                                         *)
(* A text is a sequence of words; a score o / sqrt(q * t) is kept exactly  *)
(* as its square, the fraction o * o over q * t.                           *)
(***************************************************************************)
\* {tok for tok in re.findall(...,text.lower()) if len(tok) > 1}
_tokenize(text) == {Lower(text[i]) : i \in {j \in DOMAIN text : Len(Lower(text[j])) > 1}}

ZeroScore == [num |-> 0, den |-> 1]

\* a > b for two scores
ScoreGt(a, b) == a.num * b.den > b.num * a.den

_lexical_overlap(query_tokens, text) ==
    LET tokens == _tokenize(text)
        overlap == Cardinality(query_tokens \cap tokens)
    IN  IF tokens = {} THEN ZeroScore
        ELSE IF overlap = 0 THEN ZeroScore
        ELSE [num |-> overlap * overlap,
              den |-> Cardinality(query_tokens) * Cardinality(tokens)]

RECURSIVE IsqrtBetween(_, _, _)
\* the largest r in lo..hi with r * r <= n
IsqrtBetween(n, lo, hi) ==
    IF lo = hi THEN lo
    ELSE LET mid == (lo + hi + 1) \div 2
         IN  IF mid * mid <= n THEN IsqrtBetween(n, mid, hi) ELSE IsqrtBetween(n, lo, mid - 1)

\* round(max(score, 0.0), 4), in units of 0.0001
Round4(score) ==
    (IsqrtBetween((20000 * 20000 * score.num) \div score.den, 0, 40000) + 1) \div 2

RECURSIVE KeyGt(_, _)
\* a > b for two sort keys, tuples of fractions compared from the left
KeyGt(a, b) ==
    IF a = <<>> THEN FALSE
    ELSE IF ScoreGt(Head(a), Head(b)) THEN TRUE
    ELSE IF ScoreGt(Head(b), Head(a)) THEN FALSE
    ELSE KeyGt(Tail(a), Tail(b))

RECURSIVE InsertDesc(_, _)
\* x placed behind every element whose key is not smaller: a stable descending order
InsertDesc(sorted, x) ==
    IF sorted = <<>> THEN <<x>>
    ELSE IF KeyGt(x.key, Head(sorted).key) THEN <<x>> \o sorted
    ELSE <<Head(sorted)>> \o InsertDesc(Tail(sorted), x)

RECURSIVE SortDesc(_, _)
\* sorted(items, key=..., reverse=True), which keeps equal keys in their order; an item
\* carries its key
SortDesc(items, sorted) ==
    IF items = <<>> THEN sorted
    ELSE SortDesc(Tail(items), InsertDesc(sorted, Head(items)))

\* "policy" in chunk.title.lower() or "runbook" in chunk.title.lower()
IsPolicyOrRunbook(chunk) == ContainsAny(chunk.title, {"policy", "runbook"})

_has_policy_or_runbook(chunks) == \E i \in DOMAIN chunks : IsPolicyOrRunbook(chunks[i])

\* the first policy or runbook chunk of ranked; is_none stands for the result None
_best_policy_or_runbook(ranked) ==
    LET found == {i \in DOMAIN ranked : IsPolicyOrRunbook(ranked[i].chunk)}
    IN  IF found = {} THEN [is_none |-> TRUE]
        ELSE [is_none |-> FALSE,
              chunk |-> ranked[CHOOSE i \in found : \A j \in found : i <= j].chunk]

_score_for_chunk(ranked, target) ==
    LET found == {i \in DOMAIN ranked : ranked[i].chunk = target}
    IN  IF found = {} THEN ZeroScore
        ELSE ranked[CHOOSE i \in found : \A j \in found : i <= j].score

_build_incident_why_selected(query_tokens, chunk) ==
    LET overlap_terms == query_tokens \cap _tokenize(chunk.text)
    IN  IF overlap_terms # {} THEN [reason |-> "lexical overlap on terms", terms |-> overlap_terms]
        ELSE IF chunk.source_type = "policy"
        THEN [reason |-> "selected as policy grounding evidence", terms |-> {}]
        ELSE IF chunk.source_type = "doc"
        THEN [reason |-> "selected as runbook/reference context", terms |-> {}]
        ELSE [reason |-> "selected as incident-related context", terms |-> {}]

\* a filter value and a chunk value that are both set and differ
FilterExcludes(wanted, have) == wanted \notin {None, ""} /\ have \notin {None, ""} /\ Lower(have) # Lower(wanted)

search_incident_knowledge(corpus, query, limit, service, severity) ==
    LET tokens == _tokenize(query)
        scored == [i \in DOMAIN corpus |->
                    With(_lexical_overlap(tokens, corpus[i].text),
                         LAMBDA sc : [key |-> <<sc>>, score |-> sc, chunk |-> corpus[i]])]
        kept == {i \in DOMAIN corpus :
                    /\ ~FilterExcludes(service, corpus[i].service)
                    /\ ~FilterExcludes(severity, corpus[i].severity)
                    /\ ScoreGt(scored[i].score, ZeroScore)}
    IN  IF tokens = {} THEN <<>>
        ELSE
        With(SortDesc(SelectIdx(scored, kept, 1), <<>>), LAMBDA ranked :
        With(_best_policy_or_runbook(ranked), LAMBDA policy_candidate :
            LET top == SubSeq(ranked, 1, Min(Max(limit, 1), Len(ranked)))
                swapped ==
                    IF top # <<>> /\ ~_has_policy_or_runbook([i \in DOMAIN top |-> top[i].chunk])
                        /\ ~policy_candidate.is_none
                    THEN SubSeq(top, 1, Len(top) - 1)
                            \o <<[score |-> _score_for_chunk(ranked, policy_candidate.chunk),
                                  chunk |-> policy_candidate.chunk]>>
                    ELSE top
                chosen_ranked ==
                    IF swapped = <<>> /\ ~policy_candidate.is_none
                    THEN <<[score |-> _score_for_chunk(ranked, policy_candidate.chunk),
                            chunk |-> policy_candidate.chunk]>>
                    ELSE swapped
            IN  With(SubSeq(chosen_ranked, 1, Min(Max(limit, 1), Len(chosen_ranked))),
                     LAMBDA shown :
                        [i \in DOMAIN shown |->
                            [title |-> shown[i].chunk.title,
                             snippet |-> shown[i].chunk.text,
                             source_type |-> shown[i].chunk.source_type,
                             source_id |-> shown[i].chunk.source_id,
                             score |-> Round4(shown[i].score),
                             why_selected |->
                                _build_incident_why_selected(tokens, shown[i].chunk)]])))

(***************************************************************************)
(* retrieval/chroma_previous_issues.py and retrieval/previous_issues.py    *)
(* The index is the rows of the chunks table, each with the bm25 value the *)
(* full-text engine gives it; the collection is the entries of the vector  *)
(* store, each with its distance to the query. A relevance and a score are *)
(* in units of 0.0001. A why_selected is the list of its sentences.        *)
(***************************************************************************)
\* round(p / q, 4) in units of 0.0001
RoundFrac4(p, q) == (2 * 10000 * p + q) \div (2 * q)

\* x as a fraction
Frac(x) == [num |-> x, den |-> 1]

\* token.strip(":-_")
_normalize_token(token) ==
    CASE token = "checkout:" -> "checkout"
      [] token = "-latency" -> "latency"
      [] OTHER -> token

\* previous_issues._tokenize
issue_tokenize(text) ==
    {_normalize_token(Lower(text[i])) :
        i \in {j \in DOMAIN text : Len(_normalize_token(Lower(text[j]))) > 1}}

RECURSIVE _ordered_tokens(_, _)
_ordered_tokens(text, seen) ==
    IF text = <<>> THEN <<>>
    ELSE LET normalized == _normalize_token(Lower(Head(text)))
         IN  IF Len(normalized) <= 1 \/ normalized \in seen
             THEN _ordered_tokens(Tail(text), seen)
             ELSE <<normalized>> \o _ordered_tokens(Tail(text), seen \cup {normalized})

\* the prefix terms of the FTS query and how they are joined; no terms stands for ""
_build_fts_query(text, relaxed) ==
    LET tokens == _ordered_tokens(text, {})
    IN  [terms |-> SubSeq(tokens, 1, Min(8, Len(tokens))),
         operator |-> IF relaxed THEN "OR" ELSE "AND"]

\* doc_id.rsplit(":", 1)[-1]
_ticket_from_doc_id(doc_id) ==
    CASE doc_id = "jira:WLC-1" -> "WLC-1"
      [] doc_id = "incident_event_log:wlc-1" -> "wlc-1"
      [] doc_id = "jira:WLC-2" -> "WLC-2"
      [] doc_id = "jira:WLC-3" -> "WLC-3"
      [] OTHER -> doc_id

\* ticket.strip().upper()
UpperStrip(ticket) ==
    CASE ticket \in {"wlc-1", "WLC-1", " WLC-1 "} -> "WLC-1"
      [] ticket \in {"wlc-2", "WLC-2"} -> "WLC-2"
      [] ticket \in {"wlc-3", "WLC-3"} -> "WLC-3"
      [] ticket \in {"", " "} -> ""
      [] OTHER -> ticket

\* round(1.0 / (1.0 + max(score, 0.0)), 4)
_bm25_to_relevance(score) == RoundFrac4(1, 1 + Max(score, 0))

_distance_to_relevance(distance) == RoundFrac4(1, 1 + Max(distance, 0))

_append_reason(existing, suffix) == existing \o <<suffix>>

_build_lexical_why_selected(query_tokens, text, relaxed_query) ==
    LET overlap_terms == query_tokens \cap issue_tokenize(text)
    IN  IF overlap_terms # {}
        THEN <<[text |-> IF relaxed_query THEN "relaxed FTS query matched terms"
                         ELSE "strict FTS query matched terms",
                terms |-> overlap_terms, n |-> 0]>>
        ELSE <<[text |-> "selected by FTS lexical matching.", terms |-> {}, n |-> 0]>>

_build_vector_why_selected(query, summary) ==
    <<[text |-> "selected by vector similarity search (lexical_overlap_hint)", terms |-> {},
       n |-> Cardinality(issue_tokenize(query) \cap issue_tokenize(summary))]>>

\* a key that tells the chunks of one ticket apart
TicketKey_chunk(hit) == hit.chunk_id

\* key = hit.ticket.strip().upper()
TicketKey(hit) == UpperStrip(hit.ticket)

RECURSIVE _dedupe_hits(_, _)
\* keeps the first hit of each key
_dedupe_hits(hits, seen) ==
    IF hits = <<>> THEN <<>>
    ELSE IF TicketKey(Head(hits)) \in seen THEN _dedupe_hits(Tail(hits), seen)
    ELSE <<Head(hits)>> \o _dedupe_hits(Tail(hits), seen \cup {TicketKey(Head(hits))})

RECURSIVE _dedupe_ticket_hits(_, _)
\* the same for vector hits, which also drops a hit without a ticket
_dedupe_ticket_hits(hits, seen) ==
    IF hits = <<>> THEN <<>>
    ELSE IF UpperStrip(Head(hits).ticket) \in seen \cup {""}
    THEN _dedupe_ticket_hits(Tail(hits), seen)
    ELSE <<Head(hits)>>
            \o _dedupe_ticket_hits(Tail(hits), seen \cup {UpperStrip(Head(hits).ticket)})

\* a filter value that is set
Truthy(v) == v \notin {None, ""}

\* chunks_fts MATCH ?: every term, or some term, is a word of the text (the words of the
\* model are no prefixes of one another)
FtsMatch(fts_query, text) ==
    LET words == {Lower(text[i]) : i \in DOMAIN text}
    IN  IF fts_query.operator = "AND"
        THEN \A i \in DOMAIN fts_query.terms : fts_query.terms[i] \in words
        ELSE \E i \in DOMAIN fts_query.terms : fts_query.terms[i] \in words

\* (LOWER(column) = LOWER(?) OR LOWER(c.text) LIKE ?)
SqlFilter(value, column, text) ==
    Truthy(value) => (Lower(column) = Lower(value) \/ ContainsWord(text, value))

_search_once(index, query, limit, service, severity, relaxed_query) ==
    LET fts_query == _build_fts_query(query, relaxed_query)
        selected == {i \in DOMAIN index :
                        /\ FtsMatch(fts_query, index[i].text)
                        /\ index[i].source \in {"jira", "incident_event_log"}
                        /\ SqlFilter(service, index[i].project, index[i].text)
                        /\ SqlFilter(severity, index[i].priority, index[i].text)}
        keyed == [i \in DOMAIN index |-> [key |-> <<Frac(0 - index[i].bm25)>>, row |-> index[i]]]
        ordered == SortDesc(SelectIdx(keyed, selected, 1), <<>>)
        rows == SubSeq(ordered, 1, Min(Max(limit, 1), Len(ordered)))
        query_tokens == issue_tokenize(query)
    IN  IF fts_query.terms = <<>> THEN <<>>
        ELSE [i \in DOMAIN rows |->
                With(_bm25_to_relevance(rows[i].row.bm25),
                     LAMBDA relevance :
                        [ticket |-> _ticket_from_doc_id(rows[i].row.doc_id),
                         summary |-> rows[i].row.text,
                         relevance |-> relevance,
                         chunk_id |-> rows[i].row.chunk_id,
                         doc_id |-> rows[i].row.doc_id,
                         source |-> rows[i].row.source,
                         score |-> relevance,
                         retrieval_mode |-> "lexical",
                         why_selected |-> _build_lexical_why_selected(query_tokens,
                                                rows[i].row.text, relaxed_query)])]

\* one rung of the ladder: the strict query, then the relaxed one
SearchAttempt(index, query, limit, service, severity) ==
    With(_search_once(index, query, limit, service, severity, FALSE),
         LAMBDA hits :
            IF hits # <<>> THEN hits
            ELSE _search_once(index, query, limit, service, severity, TRUE))

\* a ladder that drops the service filter first
RelaxationLadder_service_first(service, severity) ==
    <<[service |-> service, severity |-> severity],
      [service |-> None, severity |-> severity],
      [service |-> None, severity |-> None]>>

\* attempts: both filters, then without severity, then without any
RelaxationLadder(service, severity) ==
    <<[service |-> service, severity |-> severity],
      [service |-> service, severity |-> None],
      [service |-> None, severity |-> None]>>

RECURSIVE FirstNonEmpty(_, _, _, _)
\* for filters in attempts: ... if hits: return _dedupe_hits(hits); return []
FirstNonEmpty(attempts, index, query, limit) ==
    IF attempts = <<>> THEN <<>>
    ELSE With(SearchAttempt(index, query, limit, Head(attempts).service,
                            Head(attempts).severity),
              LAMBDA hits :
                IF hits # <<>> THEN _dedupe_hits(hits, {})
                ELSE FirstNonEmpty(Tail(attempts), index, query, limit))

_search_with_relaxation(index, query, limit, service, severity) ==
    FirstNonEmpty(RelaxationLadder(service, severity), index, query, limit)

RECURSIVE LadderRun(_, _, _, _, _, _)
\* the loop of _search_with_relaxation together with the queries conn.execute receives:
\* rungs are the calls of _search_once still to make, log the queries issued so far, and
\* the query number raises_at (if it is reached) raises sqlite3.Error
LadderRun(rungs, index, query, limit, raises_at, log) ==
    IF rungs = <<>> THEN [raised |-> FALSE, hits |-> <<>>, log |-> log]
    ELSE LET rung == Head(rungs)
             issued == _build_fts_query(query, rung.relaxed).terms # <<>>
             log1 == IF issued THEN Append(log, rung) ELSE log
         IN  IF issued /\ Len(log1) = raises_at
             THEN [raised |-> TRUE, hits |-> <<>>, log |-> log1]
             ELSE With(_search_once(index, query, limit, rung.service, rung.severity,
                                    rung.relaxed),
                       LAMBDA hits :
                            IF hits # <<>>
                            THEN [raised |-> FALSE, hits |-> _dedupe_hits(hits, {}), log |-> log1]
                            ELSE LadderRun(Tail(rungs), index, query, limit, raises_at, log1))

\* the lexical path of search_previous_issues: try _search_with_relaxation, and on any
\* exception lexical_hits = []
LexicalPath(index, query, limit, service, severity, raises_at) ==
    LET attempts == RelaxationLadder(service, severity)
        rungs == [k \in 1..(2 * Len(attempts)) |->
                    [service |-> attempts[(k + 1) \div 2].service,
                     severity |-> attempts[(k + 1) \div 2].severity,
                     relaxed |-> k % 2 = 0]]
    IN  With(LadderRun(rungs, index, query, limit, raises_at, <<>>),
             LAMBDA run : [lexical_hits |-> IF run.raised THEN <<>> ELSE run.hits,
                           raised_in_rung |-> run.raised, queries |-> run.log])

\* where: project_lc and priority_lc equal to the stripped, lower-cased filter values
_where_filter(entry, service, severity) ==
    /\ (Truthy(service) /\ service # " ") => entry.project_lc = Lower(service)
    /\ (Truthy(severity) /\ severity # " ") => entry.priority_lc = Lower(severity)

\* the entries come ordered by distance; a result without a ticket or a document is left out
query_chroma_previous_issues(collection, limit, service, severity) ==
    LET matching == SelectIdx(collection,
                              {i \in DOMAIN collection :
                                    _where_filter(collection[i], service, severity)}, 1)
        raw == SubSeq(matching, 1, Min(Max(limit, 1), Len(matching)))
        ticket(entry) == IF entry.issue_key # "" THEN entry.issue_key
                         ELSE _ticket_from_doc_id(entry.doc_id)
        usable == SelectIdx(raw, {i \in DOMAIN raw :
                                    ticket(raw[i]) # "" /\ raw[i].document # <<>>}, 1)
    IN  _dedupe_ticket_hits([i \in DOMAIN usable |->
                                [ticket |-> ticket(usable[i]),
                                 summary |-> usable[i].document,
                                 relevance |-> _distance_to_relevance(usable[i].distance),
                                 chunk_id |-> usable[i].chunk_id,
                                 doc_id |-> usable[i].doc_id,
                                 source |-> "chroma"]], {})

_search_chroma_vector_hits(collection, query, limit, service, severity) ==
    With(query_chroma_previous_issues(collection, limit, service, severity),
         LAMBDA raw_hits :
            [i \in DOMAIN raw_hits |->
                [ticket |-> raw_hits[i].ticket, summary |-> raw_hits[i].summary,
                 relevance |-> raw_hits[i].relevance, chunk_id |-> raw_hits[i].chunk_id,
                 doc_id |-> raw_hits[i].doc_id, source |-> raw_hits[i].source,
                 score |-> raw_hits[i].relevance, retrieval_mode |-> "vector",
                 why_selected |-> _build_vector_why_selected(query, raw_hits[i].summary)]])

\* use_hybrid if it is given, else the retrieval mode of the environment
_hybrid_enabled(use_hybrid, env_mode) ==
    IF use_hybrid # None THEN use_hybrid = "True"
    ELSE env_mode \notin {"lexical", "fts", "deterministic"}

\* a key that is the ticket alone
FusionKey_ticket(hit) == UpperStrip(hit.ticket)

\* hit.chunk_id or hit.doc_id or hit.ticket.strip().upper()
FusionKey(hit) ==
    IF hit.chunk_id # "" THEN hit.chunk_id
    ELSE IF hit.doc_id # "" THEN hit.doc_id
    ELSE UpperStrip(hit.ticket)

RECURSIVE Gcd(_, _)
Gcd(a, b) == IF b = 0 THEN a ELSE Gcd(b, a % b)

\* score += 1.0 / (k + rank + 1.0) with k = 60, for a fraction, kept in lowest terms
AddReciprocalRank(score, rank) ==
    LET num == score.num * (61 + rank) + score.den
        den == score.den * (61 + rank)
    IN  With(Gcd(num, den), LAMBDA g : [num |-> num \div g, den |-> den \div g])

RECURSIVE add_hits(_, _, _, _)
\* add_hit for the hits of one list from rank on; scored is the dict in insertion order
add_hits(scored, hits, rank, source_kind) ==
    IF hits = <<>> THEN scored
    ELSE LET hit == Head(hits)
             key == FusionKey(hit)
             at == {i \in DOMAIN scored : scored[i].fusion_key = key}
             fresh == [fusion_key |-> key, score |-> ZeroScore, hit |-> hit,
                       lexical_seen |-> source_kind = "lexical", sources_seen |-> {source_kind}]
             with_item == IF at = {} THEN Append(scored, fresh) ELSE scored
             pos == CHOOSE i \in DOMAIN with_item : with_item[i].fusion_key = key
             item == with_item[pos]
             updated == [item EXCEPT
                            !.score = AddReciprocalRank(item.score, rank),
                            !.hit = IF hit.relevance > item.hit.relevance THEN hit ELSE item.hit,
                            !.lexical_seen = item.lexical_seen \/ source_kind = "lexical",
                            !.sources_seen = item.sources_seen \cup {source_kind}]
         IN  IF key = "" THEN add_hits(scored, Tail(hits), rank + 1, source_kind)
             ELSE With([with_item EXCEPT ![pos] = updated],
                       LAMBDA next_scored :
                            add_hits(next_scored, Tail(hits), rank + 1, source_kind))

_fuse_hybrid_hits(lexical_hits, vector_hits) ==
    LET keyed(scored) == [i \in DOMAIN scored |->
                            [key |-> <<scored[i].score,
                                       Frac(IF scored[i].lexical_seen THEN 1 ELSE 0),
                                       Frac(scored[i].hit.relevance)>>,
                             item |-> scored[i]]]
    IN  IF lexical_hits = <<>> THEN vector_hits
        ELSE IF vector_hits = <<>> THEN lexical_hits
        ELSE
        With(add_hits(<<>>, lexical_hits, 0, "lexical"), LAMBDA lexical_scored :
        With(add_hits(lexical_scored, vector_hits, 0, "vector"), LAMBDA scored :
        With(SortDesc(keyed(scored), <<>>), LAMBDA ranked :
             [i \in DOMAIN ranked |->
                LET item == ranked[i].item
                    both == Cardinality(item.sources_seen) >= 2
                IN  [item.hit EXCEPT
                        !.score = RoundFrac4(item.score.num, item.score.den),
                        !.retrieval_mode = IF both THEN "hybrid"
                                           ELSE IF item.lexical_seen THEN "lexical"
                                           ELSE "vector",
                        !.why_selected =
                            IF both
                            THEN <<[text |-> "fused lexical and vector candidates via reciprocal-rank fusion.",
                                    terms |-> {}, n |-> 0]>>
                            ELSE _append_reason(item.hit.why_selected,
                                                [text |-> "kept after hybrid candidate fusion.",
                                                 terms |-> {}, n |-> 0])]])))

_deterministic_rerank(query, hits) ==
    LET q_tokens == issue_tokenize(query)
        overlap(hit) == Cardinality(q_tokens \cap issue_tokenize(hit.summary))
        keyed == [i \in DOMAIN hits |->
                    [key |-> <<Frac(overlap(hits[i])), Frac(hits[i].relevance)>>,
                     hit |-> hits[i]]]
    IN  With(SortDesc(keyed, <<>>), LAMBDA reranked :
            [i \in DOMAIN reranked |->
                [reranked[i].hit EXCEPT
                    !.why_selected =
                        _append_reason(reranked[i].hit.why_selected,
                                       [text |-> "reranked by lexical overlap (matched_terms)",
                                        terms |-> {}, n |-> overlap(reranked[i].hit)])]])

\* the hits before the last _dedupe_hits: the two searches, their fusion, the re-rank
CandidateHits(index, collection, query, limit, service, severity, use_llm_rerank, use_hybrid, env_mode) ==
    LET normalized_limit == Max(limit, 1)
        candidate_limit == Max(normalized_limit * 3, normalized_limit)
    IN  With(_search_with_relaxation(index, query, candidate_limit, service, severity),
             LAMBDA lexical_hits :
        With(IF _hybrid_enabled(use_hybrid, env_mode)
             THEN _search_chroma_vector_hits(collection, query, candidate_limit, service,
                                             severity)
             ELSE <<>>,
             LAMBDA vector_hits :
        With(_fuse_hybrid_hits(lexical_hits, vector_hits),
             LAMBDA fused :
        With(IF fused # <<>> THEN fused
             ELSE IF lexical_hits # <<>> THEN lexical_hits ELSE vector_hits,
             LAMBDA hits :
                IF use_llm_rerank = "True" THEN _deterministic_rerank(query, hits)
                ELSE hits))))

search_previous_issues(index, collection, query, limit, service, severity, use_llm_rerank, use_hybrid, env_mode) ==
    With(CandidateHits(index, collection, query, limit, service, severity, use_llm_rerank,
                       use_hybrid, env_mode),
         LAMBDA hits :
    With(_dedupe_hits(hits, {}),
         LAMBDA deduped : SubSeq(deduped, 1, Min(Max(limit, 1), Len(deduped)))))

(***************************************************************************)
(* Functions applied on their own, to any arguments                        *)
(***************************************************************************)
FnInit == PipeIdle /\ GwIdle /\ FnIdle

\* f(args) is called and returns out
Applied(f, args, out) ==
    /\ fn_name = "none"
    /\ fn_name' = f
    /\ fn_in' = args
    /\ fn_out' = out
    /\ UNCHANGED <<pipe_vars, gw_vars>>

Call_resolve_registry ==
    \E requested_mode \in {"llm", "LLM", " Llm ", "deterministic", "Deterministic", "auto", ""},
       provider \in {"openai", "OpenAI", " openai ", "anthropic", ""},
       api_key \in {"", "sk-test", " "} :
        /\ Applied("resolve_registry",
                   [requested_mode |-> requested_mode, provider |-> provider, api_key |-> api_key],
                   resolve_registry(requested_mode, provider, api_key))

\* a tool_results entry as Execute writes it for an ok call
OkEntry(data) == [status |-> "ok", data |-> data, implementation |-> "deterministic",
                  attempts |-> 1, duration_ms |-> 0]

\* the lists of at most two elements of a set
ListsOf(S) == {<<>>} \cup {<<a>> : a \in S} \cup {<<a, b>> : a \in S, b \in S}

\* a search tool's entry: absent, failed, or ok with a result list
SearchEntries(hits) ==
    {[status |-> "absent"], [status |-> "failed", error |-> "timed out"]}
        \cup {OkEntry([results |-> l]) : l \in ListsOf(hits)}

\* tool_results with the given entries; an absent entry is left out
WithEntries(entries) ==
    [t \in {t \in DOMAIN entries : entries[t].status # "absent"} |-> entries[t]]

\* the tool_results the gates are applied to: any evidence with a consistent summary, and
\* any summary and entity list without evidence. The knowledge hits are eligible with a
\* runbook title, eligible without, identifier only, snippet only, and a snippet with
\* source_id None; the previous-issue hits are eligible, summary only, ticket only.
VerifyToolResults(user_input_) ==
    LET KnowledgeHits ==
            {PolicyHit, TicketHit,
             [title |-> <<"Policy">>, snippet |-> <<>>, source_id |-> "pol-1"],
             [title |-> <<"notes">>, snippet |-> <<"latency">>, source_id |-> ""],
             [title |-> <<"notes">>, snippet |-> <<"latency">>, source_id |-> None]}
        IssueHits ==
            {IssueHit,
             [ticket |-> "", summary |-> <<"checkout", "latency">>, doc_id |-> "",
              chunk_id |-> ""],
             [ticket |-> "WLC-9", summary |-> <<>>, doc_id |-> None, chunk_id |-> None]}
        Summaries ==
            {<<>>, <<"report">>, <<"payments", "report">>,
             <<"Investigate", "incident", "in", "Payments">>}
        EntityLists ==
            {<<>>, <<"Payments">>, <<"Payments", "Investigate">>,
             <<"Payments", "Investigate", "Checkout">>,
             <<"Payments", "Investigate", "Checkout", "Alice">>}
    IN  {WithEntries([summarize |-> OkEntry([summary |-> user_input_]),
                      extract_entities |-> OkEntry([entities |-> <<>>]),
                      classify_priority |-> OkEntry([priority |-> "low"]),
                      search_incident_knowledge |-> k,
                      search_previous_issues |-> p])
            : k \in SearchEntries(KnowledgeHits), p \in SearchEntries(IssueHits)}
        \cup
        {WithEntries([summarize |-> s,
                      extract_entities |-> OkEntry([entities |-> e]),
                      classify_priority |-> OkEntry([priority |-> "low"])])
            : s \in {[status |-> "absent"]} \cup {OkEntry([summary |-> t]) : t \in Summaries},
              e \in EntityLists}

Call_verify ==
    \E user_input_ \in UserInputs \cup {<<"Payments", "Outage">>} :
        \E tool_results_ \in VerifyToolResults(user_input_) :
            /\ Applied("verify", [user_input |-> user_input_, tool_results |-> tool_results_],
                       VerifyResult(user_input_, tool_results_, 0, MaxBudget))

\* _incident_corpus: policies, then docs, then tickets, any of them absent; a policy, a
\* runbook doc and two tickets
Corpora ==
    LET PolicyChunk ==
            [title |-> <<"Policy", "escalation">>, text |-> <<"escalate", "outage">>,
             source_type |-> "policy", source_id |-> "policies/escalation.md",
             service |-> None, severity |-> None]
        RunbookChunk ==
            [title |-> <<"Runbook", "checkout">>,
             text |-> <<"checkout", "latency", "restart", "service", "pods">>,
             source_type |-> "doc", source_id |-> "docs/checkout.md",
             service |-> None, severity |-> None]
        TicketChunk1 ==
            [title |-> <<"Ticket", "WLC-1", "checkout">>,
             text |-> <<"Ticket", "WLC-1", "checkout", "latency">>,
             source_type |-> "jira_ticket", source_id |-> "WLC-1",
             service |-> "PAY", severity |-> "sev1"]
        TicketChunk2 ==
            [title |-> <<"Ticket", "WLC-2", "login">>,
             text |-> <<"Ticket", "WLC-2", "login", "error">>,
             source_type |-> "jira_ticket", source_id |-> "WLC-2",
             service |-> "WEB", severity |-> "sev2"]
    IN  {p \o r \o t1 \o t2 : p \in {<<>>, <<PolicyChunk>>}, r \in {<<>>, <<RunbookChunk>>},
                             t1 \in {<<>>, <<TicketChunk1>>}, t2 \in {<<>>, <<TicketChunk2>>}}

Call_search_incident_knowledge ==
    \E corpus \in Corpora,
       query \in {<<>>, <<"a">>, <<"checkout", "latency">>, <<"ticket", "latency">>,
                  <<"login", "error">>, <<"escalate">>, <<"refund">>},
       limit \in {0, 1, 2}, service \in {None, "pay"}, severity \in {None, "SEV1"} :
        /\ Applied("search_incident_knowledge",
                   [corpus |-> corpus, query |-> query, limit |-> limit, service |-> service,
                    severity |-> severity],
                   search_incident_knowledge(corpus, query, limit, service, severity))

\* rows of the chunks table: two chunks of one ticket, written in two cases, a chunk of
\* another ticket, and a chunk of a source the search leaves out
Indexes ==
    LET RowA == [chunk_id |-> "c1", doc_id |-> "jira:WLC-1", text |-> <<"checkout", "spike">>,
                 source |-> "jira", project |-> "PAY", priority |-> "SEV1", bm25 |-> 0]
        RowB == [chunk_id |-> "c2", doc_id |-> "incident_event_log:wlc-1",
                 text |-> <<"checkout", "again">>, source |-> "incident_event_log",
                 project |-> "PAY", priority |-> "sev2", bm25 |-> 1]
        RowC == [chunk_id |-> "c3", doc_id |-> "jira:WLC-2",
                 text |-> <<"login", "error", "checkout">>,
                 source |-> "jira", project |-> "WEB", priority |-> "sev2", bm25 |-> 2]
        RowD == [chunk_id |-> "c4", doc_id |-> "confluence:guide",
                 text |-> <<"checkout", "guide">>,
                 source |-> "confluence", project |-> "PAY", priority |-> "", bm25 |-> 0]
    IN  {<<>>, <<RowA, RowC>>, <<RowD, RowA, RowB, RowC>>}

\* entries of the vector store, nearest first
Collections ==
    LET EntryV1 == [chunk_id |-> "c3", doc_id |-> "jira:WLC-2", issue_key |-> "WLC-2",
                    document |-> <<"login", "error">>, project_lc |-> "web",
                    priority_lc |-> "sev2", distance |-> 0]
        EntryV2 == [chunk_id |-> "v7", doc_id |-> "jira:WLC-1", issue_key |-> "WLC-1",
                    document |-> <<"checkout", "latency">>, project_lc |-> "pay",
                    priority_lc |-> "sev1", distance |-> 1]
        EntryV3 == [chunk_id |-> "v9", doc_id |-> "jira:WLC-3", issue_key |-> "WLC-3",
                    document |-> <<>>, project_lc |-> "pay", priority_lc |-> "sev1",
                    distance |-> 2]
    IN  {<<>>, <<EntryV1>>, <<EntryV1, EntryV2, EntryV3>>}

Call_search_previous_issues ==
    \E index \in Indexes, collection \in Collections,
       query \in {<<>>, <<"checkout", "latency">>, <<"login", "error">>, <<"checkout:", "a">>,
                  <<"refund">>},
       limit \in {0, 2}, service \in {None, "pay", "nosuch"},
       severity \in {None, "sev1", "sev9"}, use_llm_rerank \in {None, "True"},
       use_hybrid \in {None, "True", "False"} :
        \* the environment's retrieval mode is read only when use_hybrid is not given
        \E env_mode \in IF use_hybrid = None THEN {"hybrid", "lexical"} ELSE {"hybrid"} :
            /\ Applied("search_previous_issues",
                       [index |-> index, collection |-> collection, query |-> query,
                        limit |-> limit, service |-> service, severity |-> severity,
                        use_llm_rerank |-> use_llm_rerank, use_hybrid |-> use_hybrid,
                        env_mode |-> env_mode],
                       search_previous_issues(index, collection, query, limit, service, severity,
                                              use_llm_rerank, use_hybrid, env_mode))

\* _fuse_hybrid_hits for any two lists of at most two hits: hits of the lexical search and
\* hits of the vector search that share a chunk id, share only a ticket, have only a ticket
\* for a key, or have no key at all
Call_fuse_hybrid_hits ==
    LET Hit(ticket, chunk_id, doc_id, relevance, retrieval_mode) ==
            [ticket |-> ticket, summary |-> <<"checkout", "latency">>, relevance |-> relevance,
             chunk_id |-> chunk_id, doc_id |-> doc_id,
             source |-> IF retrieval_mode = "lexical" THEN "jira" ELSE "chroma",
             score |-> relevance, retrieval_mode |-> retrieval_mode,
             why_selected |-> <<[text |-> "selected by FTS lexical matching.", terms |-> {},
                                 n |-> 0]>>]
        LexicalHits == {Hit("WLC-1", "c1", "jira:WLC-1", 5000, "lexical"),
                        Hit("WLC-2", "", "jira:WLC-2", 3333, "lexical"),
                        Hit("wlc-3", "", "", 2500, "lexical"),
                        Hit(" ", "", "", 2000, "lexical")}
        VectorHits == {Hit("WLC-1", "c1", "jira:WLC-1", 10000, "vector"),
                       Hit("WLC-2", "v7", "jira:WLC-2", 5000, "vector"),
                       Hit("WLC-3", "", "", 3333, "vector"),
                       Hit("", "", "", 2500, "vector")}
    IN  \E lexical_hits \in ListsOf(LexicalHits), vector_hits \in ListsOf(VectorHits) :
            /\ Applied("_fuse_hybrid_hits",
                       [lexical_hits |-> lexical_hits, vector_hits |-> vector_hits],
                       _fuse_hybrid_hits(lexical_hits, vector_hits))

\* _enforce_minimum_plan_shape for any plan build_llm_plan can return: one to MaxPlanLen
\* steps of allowed tools, in any order and with repeats, for any request
Call_enforce_minimum_plan_shape ==
    LET RawSteps ==
            {[id |-> None, tool |-> t, args |-> EmptyDict]
                : t \in {"summarize", "extract_entities", "classify_priority",
                         "extract_deadlines", "search_incident_knowledge",
                         "search_previous_issues", "build_incident_brief"}}
            \cup {[id |-> "s1", tool |-> "summarize",
                   args |-> [text |-> <<"report">>, tone |-> "brief"]]}
    IN  \E user_input_ \in UserInputs, task_context_ \in Contexts, n \in 1..MaxPlanLen :
            \E plan \in [1..n -> RawSteps] :
                /\ Applied("_enforce_minimum_plan_shape",
                           [plan_steps |-> build_llm_plan_steps(plan),
                            user_input |-> user_input_, task_context |-> task_context_],
                           _enforce_minimum_plan_shape(build_llm_plan_steps(plan), user_input_,
                                                       task_context_))

\* the lexical path for any index, query and filters, with no query or any one query of
\* the ladder raising
Call_lexical_path ==
    \E index \in Indexes,
       query \in {<<>>, <<"checkout", "latency">>, <<"login", "error">>, <<"refund">>},
       service \in {None, "pay", "nosuch"}, severity \in {None, "sev1", "sev9"},
       raises_at \in 0..6 :
        /\ Applied("lexical_path",
                   [index |-> index, query |-> query, limit |-> 2 * DEFAULT_LIMIT,
                    service |-> service, severity |-> severity, raises_at |-> raises_at],
                   LexicalPath(index, query, 2 * DEFAULT_LIMIT, service, severity, raises_at))

FnNext ==
    \/ Call_resolve_registry
    \/ Call_verify
    \/ Call_search_incident_knowledge
    \/ Call_search_previous_issues
    \/ Call_fuse_hybrid_hits
    \/ Call_enforce_minimum_plan_shape
    \/ Call_lexical_path

FnSpec == FnInit /\ [][FnNext]_vars

\* the runner leaves the node it is at: the node function returns and the graph follows
\* one of the node's outgoing edges. Every step of Next changes pc, and Next is enabled
\* wherever pc is a node (C4_Termination states it), so this is weak fairness of Next.
Leave == pc \in Nodes /\ pc' \in (Nodes \cup {"END"}) \ {pc}

FairSpec == Init /\ [][Next]_vars /\ WF_pc(Leave)

(***************************************************************************)
(* Properties                                                              *)
(***************************************************************************)
Passed == Get(verification, "passed", FALSE)

\* the gateway calls the step has added
NewCalls == SubSeq(gateway_calls', Len(gateway_calls) + 1, Len(gateway_calls'))

\* C1: idempotent retry.  No gateway call for a tool follows an ok call for it, in the same
\* Execute or a later one, and a tool_results entry with status ok is never changed again.
C1_IdempotentRetry ==
    /\ [](\A i, j \in DOMAIN gateway_calls :
            (i < j /\ gateway_calls[i].tool = gateway_calls[j].tool)
                => gateway_calls[i].status # "ok")
    /\ [][\A t \in DOMAIN tool_results :
            tool_results[t].status = "ok"
                => /\ t \in DOMAIN tool_results'
                   /\ tool_results'[t] = tool_results[t]
                   /\ \A i \in DOMAIN NewCalls : NewCalls[i].tool # t]_vars

\* a second Execute has re-run a failed tool next to a tool that was already ok
C1_Witness ==
    /\ runs["execute"] = 2
    /\ pc = "verify"
    /\ \E i, j \in DOMAIN gateway_calls :
        /\ i < j
        /\ gateway_calls[i].tool = gateway_calls[j].tool
        /\ gateway_calls[i].status = "failed"
    /\ \E t \in DOMAIN tool_results :
        /\ tool_results[t].status = "ok"
        /\ tool_results[t].attempts = 1
        /\ Cardinality({i \in DOMAIN gateway_calls : gateway_calls[i].tool = t}) = 1

\* C2: the edge out of Verify goes back to Plan exactly when the verification just written
\* has not passed and the retry_count just written is below retry_budget, else to Finalize.
C2_RetryEdge ==
    [][pc = "verify"
        => /\ pc' \in {"plan", "finalize"}
           /\ pc' = "plan" <=> (~verification'.passed /\ retry_count' < retry_budget)]_vars

\* the retry edge has been taken once and refused once
C2_Witness ==
    /\ pc = "finalize"
    /\ runs["verify"] = 2
    /\ ~Passed
    /\ retry_count = retry_budget

\* C3: Verify adds 1 to retry_count when it fails and 0 when it passes, and reports
\* remaining = max(0, budget - count) and budget_exhausted = (count >= budget); with
\* retry_budget = 2 the count goes 0, 1, 2 over two failing Verify calls, the budget is
\* exhausted at 2 and not before, and the graph then goes to Finalize.
C3_RetryAccounting ==
    /\ [][pc = "verify"
            => /\ retry_count' = retry_count + (IF verification'.passed THEN 0 ELSE 1)
               /\ verification'.retry.count = retry_count'
               /\ verification'.retry.remaining = Max(0, retry_budget - retry_count')
               /\ verification'.retry.budget_exhausted = (retry_count' >= retry_budget)]_vars
    /\ []((retry_budget = 2 /\ runs["verify"] = 1 /\ pc # "verify" /\ ~Passed)
            => (retry_count = 1 /\ ~verification.retry.budget_exhausted))
    /\ []((retry_budget = 2 /\ runs["verify"] = 2 /\ pc # "verify" /\ ~Passed)
            => (retry_count = 2 /\ verification.retry.budget_exhausted
                /\ pc \in {"finalize", "END"}))

\* two failing Verify calls with retry_budget = 2
C3_Witness ==
    /\ retry_budget = 2
    /\ runs["verify"] = 2
    /\ pc = "finalize"
    /\ ~Passed
    /\ retry_count = 2
    /\ verification.retry.remaining = 0

C5_RetryCountBound == retry_count <= retry_budget + 1

\* the bound is met: a failed verification with no budget
C5_Witness ==
    /\ retry_budget = 0
    /\ retry_count = 1
    /\ pc = "finalize"

\* C6: for a registered tool the attempts are made one after another up to the first that
\* succeeds; the result is ok with the number of that attempt, or failed with
\* max_retries + 1 attempts and the error of the last one; a backoff sleep follows every
\* failed attempt but the last, and only when backoff_s > 0.
C6_GatewayRetry ==
    (gw_pc = "returned" /\ gw_registered)
        => LET n == Len(gw_log)
           IN  /\ gw_result.attempts = n
               /\ n \in 1..(gw_max_retries + 1)
               /\ \A i \in 1..(n - 1) : gw_log[i] # "ok"
               /\ gw_result.status = "ok" <=> gw_log[n] = "ok"
               /\ gw_result.status = "failed"
                    => (n = gw_max_retries + 1 /\ gw_result.error = gw_log[n])
               /\ gw_sleeps = IF gw_backoff_s > 0 THEN [i \in 1..(n - 1) |-> i - 1] ELSE <<>>

\* a timeout, then an exception, then a failed third attempt, with a sleep after each of
\* the first two
C6_Witness ==
    /\ gw_pc = "returned"
    /\ gw_registered
    /\ gw_max_retries = 2
    /\ gw_log = <<"timed out", "tool exception", "output schema error">>
    /\ gw_result.status = "failed"
    /\ gw_result.error = "output schema error"
    /\ gw_sleeps = <<0, 1>>

\* C7: a call with a tool name that is not registered returns failed after one attempt and
\* without a backoff sleep.
C7_UnknownToolNoRetry ==
    (gw_pc = "returned" /\ ~gw_registered)
        => (gw_result.status = "failed" /\ gw_result.attempts = 1 /\ gw_sleeps = <<>>)

\* C8: after a timeout the gateway goes on at once: it is never held back by the worker of
\* the attempt that timed out, which may still be running.
C8_TimeoutNotWaited == ~(gw_pc = "shutdown" /\ gw_attempt \in gw_running)

\* C9: when the try block of Plan raises, Plan returns the plan of the deterministic planner
\* for the same input and context, and telemetry.planner records requested_mode llm,
\* effective_mode deterministic, fallback_used and the reason.
C9_PlannerFallback ==
    plan_raised
        => /\ plan_steps = PlanPatch("deterministic", [raised |-> FALSE, steps |-> <<>>],
                                     user_input, task_context, EmptyDict).plan_steps
           /\ "planner" \in DOMAIN telemetry
           /\ telemetry["planner"].requested_mode = "llm"
           /\ telemetry["planner"].effective_mode = "deterministic"
           /\ telemetry["planner"].fallback_used = TRUE
           /\ telemetry["planner"].fallback_reason \notin {"", None}

\* the model answered with a tool that is not allowed, for an incident input
C9_Witness ==
    /\ plan_raised
    /\ pc = "retrieve"
    /\ adapter = "up"
    /\ telemetry["planner"].fallback_reason = "Unsupported tool from LLM planner"
    /\ Len(plan_steps) = 6

\* C10: with the model-backed registry in effect and an adapter that fails every call, the
\* entries Execute records for summarize and build_incident_brief have status ok.
C10_LlmToolFallsBack ==
    \A t \in {"summarize", "build_incident_brief"} :
        (/\ adapter = "down"
         /\ "executor" \in DOMAIN telemetry
         /\ telemetry["executor"].effective_mode = "llm"
         /\ t \in DOMAIN tool_results)
            => tool_results[t].status = "ok"

\* C11: resolve_registry always returns a resolution; it is the model-backed registry
\* (summarize and build_incident_brief model-backed, every other tool deterministic) exactly
\* when the mode asked for is llm, the provider is openai and the key is not empty, else the
\* deterministic registry; when llm was asked for and not obtained a reason is recorded.
C11_RegistryResolution ==
    fn_name = "resolve_registry"
        => LET asked_llm == LowerStrip(fn_in.requested_mode) = "llm"
               obtainable == /\ asked_llm
                             /\ LowerStrip(fn_in.provider) = "openai"
                             /\ fn_in.api_key # ""
           IN  /\ fn_out.effective_mode \in {"llm", "deterministic"}
               /\ fn_out.effective_mode = "llm" <=> obtainable
               /\ DOMAIN fn_out.registry = ALLOWED_TOOLS
               /\ \A t \in ALLOWED_TOOLS :
                    fn_out.registry[t].implementation =
                        (IF obtainable /\ t \in {"summarize", "build_incident_brief"}
                         THEN "llm" ELSE "deterministic")
               /\ (asked_llm /\ ~obtainable) => fn_out.fallback_reason \notin {None, ""}

\* llm asked for with the provider spelled in capitals and no key: the fallback with its reason
C11_Witness ==
    /\ fn_name = "resolve_registry"
    /\ fn_in.requested_mode = "LLM"
    /\ fn_in.provider = "OpenAI"
    /\ fn_in.api_key = ""
    /\ fn_out.effective_mode = "deterministic"
    /\ fn_out.fallback_reason = "OPENAI_API_KEY is missing for executor llm mode"

\* C12: a verification record has passed exactly when its missing_tools, failed_tools and
\* gate_failures are all empty; and while the state holds a passed verification, the three
\* required tools are in tool_results and every entry of tool_results has status ok.
C12_PassedMeansClean ==
    "passed" \in DOMAIN verification
        => /\ verification.passed <=> (/\ verification.missing_tools = <<>>
                                        /\ verification.failed_tools = {}
                                        /\ verification.gate_failures = <<>>)
           /\ verification.passed
                => /\ \A i \in DOMAIN REQUIRED_TOOLS : REQUIRED_TOOLS[i] \in DOMAIN tool_results
                   /\ \A t \in DOMAIN tool_results : tool_results[t].status = "ok"

\* a verification that passed on the retry, after a first one that failed on a failed tool
C12_Witness ==
    /\ pc = "finalize"
    /\ Passed
    /\ runs["verify"] = 2
    /\ \E i \in DOMAIN gateway_calls : gateway_calls[i].status = "failed"
    /\ Cardinality(DOMAIN tool_results) >= 3

\* C13: the incident gate is required exactly when user_input holds an incident keyword;
\* when it is, gate_failures holds missing_incident_knowledge_evidence exactly when the
\* knowledge list is missing or empty, missing_previous_issue_evidence exactly when the
\* previous-issue list is missing or empty, and missing_policy_citation exactly when no
\* knowledge hit has policy or runbook in its title; when it is not, the gate adds nothing.
C13_IncidentGate ==
    fn_name = "verify"
        => LET rows(t) == IF t \in DOMAIN fn_in.tool_results
                             /\ "data" \in DOMAIN fn_in.tool_results[t]
                          THEN fn_in.tool_results[t].data.results ELSE <<>>
               knowledge == rows("search_incident_knowledge")
               previous == rows("search_previous_issues")
               keyword == \E i \in DOMAIN fn_in.user_input :
                            fn_in.user_input[i] \in {"incident", "Outage"}
               policy == \E i \in DOMAIN knowledge :
                            \E j \in DOMAIN knowledge[i].title :
                                knowledge[i].title[j] \in {"Policy", "Runbook"}
               InList(x, l) == \E i \in DOMAIN l : l[i] = x
           IN  /\ fn_out.incident_gate.required <=> keyword
               /\ keyword
                    => /\ InList("missing_incident_knowledge_evidence", fn_out.gate_failures)
                            <=> knowledge = <<>>
                       /\ InList("missing_previous_issue_evidence", fn_out.gate_failures)
                            <=> previous = <<>>
                       /\ InList("missing_policy_citation", fn_out.gate_failures) <=> ~policy
               /\ ~keyword
                    => \A i \in DOMAIN fn_out.gate_failures :
                            fn_out.gate_failures[i] = "summary_entity_inconsistency"

\* an incident input whose only knowledge hit is neither policy nor runbook
C13_Witness ==
    /\ fn_name = "verify"
    /\ fn_in.user_input = <<"Investigate", "incident", "in", "Payments">>
    /\ ResultRows(fn_in.tool_results, "search_incident_knowledge") = <<TicketHit>>
    /\ ResultRows(fn_in.tool_results, "search_previous_issues") = <<IssueHit>>
    /\ fn_out.gate_failures = <<"missing_policy_citation">>
    /\ ~fn_out.passed

\* C14: when the incident gate is required and passes, the knowledge result list and the
\* previous-issue result list each hold a single hit that carries both a non-empty
\* reference identifier and a non-empty snippet or summary.
C14_GateNeedsEligibleHits ==
    (fn_name = "verify" /\ fn_out.incident_gate.required /\ fn_out.incident_gate.passed)
        => LET knowledge == ResultRows(fn_in.tool_results, "search_incident_knowledge")
               previous == ResultRows(fn_in.tool_results, "search_previous_issues")
               nonempty(v) == v \notin {"", " ", None}
           IN  /\ \E i \in DOMAIN knowledge :
                        nonempty(knowledge[i].source_id) /\ knowledge[i].snippet # <<>>
               /\ \E i \in DOMAIN previous :
                        /\ \E k \in {"ticket", "doc_id", "chunk_id"} : nonempty(previous[i][k])
                        /\ previous[i].summary # <<>>

\* C15: an empty or missing summary flags missing_or_empty_summary; with a non-empty
\* summary and n >= 1 entities, Verify flags summary_missing_entities and fails unless
\* strictly more than half of the n entities occur, case-insensitively, in the summary.
C15_ConsistencyGate ==
    fn_name = "verify"
        => LET results == fn_in.tool_results
               summary == IF "summarize" \in DOMAIN results
                          THEN results["summarize"].data.summary ELSE <<>>
               entities == results["extract_entities"].data.entities
               occurring == {i \in DOMAIN entities :
                                \E j \in DOMAIN summary : Lower(summary[j]) = Lower(entities[i])}
               flagged == /\ fn_out.consistency_issues # <<>>
                          /\ fn_out.consistency_issues[1] # "missing_or_empty_summary"
                          /\ fn_out.consistency_issues[1][1] = "summary_missing_entities"
           IN  /\ summary = <<>> => fn_out.consistency_issues = <<"missing_or_empty_summary">>
               /\ (summary # <<>> /\ Len(entities) >= 1
                        /\ ~(2 * Cardinality(occurring) > Len(entities)))
                    => flagged /\ ~fn_out.passed

\* C16: in every step of a run task_id, user_input, task_context and retry_budget keep
\* their values; plan_steps changes only in a step of Plan, tool_results only in a step of
\* Execute, verification and retry_count only in a step of Verify, final_output only in
\* the step of Finalize and it is None before; every telemetry sub-record stays in
\* telemetry and changes only in a step of the stage that writes it.
C16_StagePatchFrame ==
    [][LET writer == [planner |-> "plan", retrieval |-> "retrieve", executor |-> "execute",
                      tool_execution |-> "execute"]
       IN  /\ task_id' = task_id /\ user_input' = user_input
           /\ task_context' = task_context /\ retry_budget' = retry_budget
           /\ plan_steps' # plan_steps => pc = "plan"
           /\ tool_results' # tool_results => pc = "execute"
           /\ (verification' # verification \/ retry_count' # retry_count) => pc = "verify"
           /\ pc # "finalize" => final_output' = final_output
           /\ pc' # "END" => final_output' = None
           /\ \A k \in DOMAIN telemetry :
                /\ k \in DOMAIN telemetry'
                /\ telemetry'[k] # telemetry[k] => pc = writer[k]]_vars

\* a run that retried and ended with all four telemetry sub-records and a final output
C16_Witness ==
    /\ pc = "END" /\ runs["plan"] >= 2 /\ "kind" \in DOMAIN final_output
    /\ DOMAIN telemetry = {"planner", "retrieval", "executor", "tool_execution"}
    /\ plan_steps # <<>> /\ tool_results # EmptyDict /\ verification # EmptyDict

\* C17: when the corpus holds a policy or runbook chunk, the result of the incident
\* knowledge search holds one, for every query, filter and limit; and when no chunk scores
\* above zero for the query the result is that single best policy or runbook chunk.
C17_PolicyChunkGuaranteed ==
    (fn_name = "search_incident_knowledge" /\ _has_policy_or_runbook(fn_in.corpus))
        => /\ \E i \in DOMAIN fn_out : ContainsAny(fn_out[i].title, {"policy", "runbook"})
           /\ (\A i \in DOMAIN fn_in.corpus :
                    _tokenize(fn_in.query) \cap _tokenize(fn_in.corpus[i].text) = {})
                => Len(fn_out) = 1

\* C18: when a service or severity filter is given and no row of the index and no entry
\* of the collection matches any given filter value, the search returns the hits of the
\* same search without a filter, whenever that search has a hit.
C18_RelaxationFallback ==
    fn_name = "search_previous_issues"
        => LET a == fn_in
               unfiltered == search_previous_issues(a.index, a.collection, a.query, a.limit,
                                    None, None, a.use_llm_rerank, a.use_hybrid, a.env_mode)
               unmatched(value, column, column_lc) ==
                    Truthy(value)
                        => /\ \A i \in DOMAIN a.index :
                                ~SqlFilter(value, a.index[i][column], a.index[i].text)
                           /\ \A i \in DOMAIN a.collection :
                                a.collection[i][column_lc] # Lower(value)
           IN  (/\ Truthy(a.service) \/ Truthy(a.severity)
                /\ unmatched(a.service, "project", "project_lc")
                /\ unmatched(a.severity, "priority", "priority_lc")
                /\ unfiltered # <<>>)
                    => {fn_out[i].ticket : i \in DOMAIN fn_out}
                            = {unfiltered[i].ticket : i \in DOMAIN unfiltered}

\* C19: the list the previous-issue search returns has no two hits with the same
\* upper-cased ticket and at most max(limit, 1) hits.
C19_UniqueTicketsWithinLimit ==
    fn_name = "search_previous_issues"
        => /\ \A i, j \in DOMAIN fn_out :
                UpperStrip(fn_out[i].ticket) = UpperStrip(fn_out[j].ticket) => i = j
           /\ Len(fn_out) <= Max(fn_in.limit, 1)

\* a search whose candidates held two hits of one ticket and that returned two hits
C19_Witness ==
    /\ fn_name = "search_previous_issues"
    /\ Len(fn_out) = 2 /\ fn_in.limit = 2
    /\ LET a == fn_in
           hits == CandidateHits(a.index, a.collection, a.query, a.limit, a.service,
                                 a.severity, a.use_llm_rerank, a.use_hybrid, a.env_mode)
       IN  \E i, j \in DOMAIN hits :
                i # j /\ UpperStrip(hits[i].ticket) = UpperStrip(hits[j].ticket)

\* C20: of the candidate hits of one search that share a ticket, compared without case,
\* the hit in the response has the highest score, with and without the re-rank.
C20_KeepsHighestScoring ==
    fn_name = "search_previous_issues"
        => LET a == fn_in
               hits == CandidateHits(a.index, a.collection, a.query, a.limit, a.service,
                                     a.severity, a.use_llm_rerank, a.use_hybrid, a.env_mode)
           IN  \A i \in DOMAIN fn_out : \A j \in DOMAIN hits :
                    UpperStrip(hits[j].ticket) = UpperStrip(fn_out[i].ticket)
                        => hits[j].score <= fn_out[i].score

\* C21: when the lexical and the vector list are both non-empty, the fused output holds
\* exactly one hit for every non-empty fusion key (chunk id, else doc id, else the
\* upper-cased ticket) of the two lists and nothing else; a hit is tagged hybrid exactly
\* when its key occurs in both lists, and else carries the mode of the one list it is from.
C21_FusionTagging ==
    (fn_name = "_fuse_hybrid_hits" /\ fn_in.lexical_hits # <<>> /\ fn_in.vector_hits # <<>>)
        => LET key(hit) == IF hit.chunk_id # "" THEN hit.chunk_id
                           ELSE IF hit.doc_id # "" THEN hit.doc_id
                           ELSE IF hit.ticket \in {"", " "} THEN ""
                           ELSE IF hit.ticket = "wlc-3" THEN "WLC-3" ELSE hit.ticket
               keys(hits) == {key(hits[i]) : i \in DOMAIN hits} \ {""}
               lexical == keys(fn_in.lexical_hits)
               vector == keys(fn_in.vector_hits)
           IN  /\ \A k \in lexical \cup vector :
                    Cardinality({i \in DOMAIN fn_out : key(fn_out[i]) = k}) = 1
               /\ Len(fn_out) = Cardinality(lexical \cup vector)
               /\ \A i \in DOMAIN fn_out :
                    fn_out[i].retrieval_mode =
                        IF key(fn_out[i]) \in lexical \cap vector THEN "hybrid"
                        ELSE IF key(fn_out[i]) \in lexical THEN "lexical" ELSE "vector"

\* a fusion of two lists that share one key and hold one key each of their own
C21_Witness ==
    /\ fn_name = "_fuse_hybrid_hits"
    /\ Len(fn_in.lexical_hits) = 2 /\ Len(fn_in.vector_hits) = 2
    /\ {fn_out[i].retrieval_mode : i \in DOMAIN fn_out} = {"hybrid", "lexical", "vector"}

\* C22: every normalized plan of the model holds extract_entities, classify_priority and
\* summarize, holds the three incident tools when the request is incident-like, and has
\* exactly one summarize step, which is its last step and whose text is the user input.
C22_NormalizedPlanShape ==
    fn_name = "_enforce_minimum_plan_shape"
        => LET tools == {fn_out[i].tool : i \in DOMAIN fn_out}
               last == fn_out[Len(fn_out)]
           IN  /\ {"extract_entities", "classify_priority", "summarize"} \subseteq tools
               /\ _is_incident_request(fn_in.user_input, fn_in.task_context)
                    => {"search_incident_knowledge", "search_previous_issues",
                        "build_incident_brief"} \subseteq tools
               /\ Cardinality({i \in DOMAIN fn_out : fn_out[i].tool = "summarize"}) = 1
               /\ last.tool = "summarize"
               /\ last.args.text = fn_in.user_input

\* an incident-like request whose plan from the model had two summarize steps, one of them
\* with a text of its own, and no extractor
C22_Witness ==
    /\ fn_name = "_enforce_minimum_plan_shape"
    /\ _is_incident_request(fn_in.user_input, fn_in.task_context)
    /\ Len(fn_in.plan_steps) = 3
    /\ \A i \in DOMAIN fn_in.plan_steps : fn_in.plan_steps[i].tool = "summarize"
    /\ fn_in.plan_steps[3].args # EmptyDict
    /\ fn_in.plan_steps[3].args.text # fn_in.user_input
    /\ Len(fn_out) = 6

\* C23: in a normalized plan of the model that holds a build_incident_brief step and a
\* retrieval step, the brief steps come directly after the last retrieval step.
C23_BriefFollowsRetrieval ==
    fn_name = "_enforce_minimum_plan_shape"
        => LET briefs == {i \in DOMAIN fn_out : fn_out[i].tool = "build_incident_brief"}
               retrievals == {i \in DOMAIN fn_out : fn_out[i].tool \in
                                {"search_incident_knowledge", "search_previous_issues"}}
           IN  (briefs # {} /\ retrievals # {})
                => LET last_retrieval == CHOOSE i \in retrievals : \A j \in retrievals : j <= i
                   IN  briefs = (last_retrieval + 1)..(last_retrieval + Cardinality(briefs))

\* C24: the plan of the deterministic planner starts with summarize, extract_entities,
\* classify_priority; for a request whose text or context signals an incident it goes on
\* with search_incident_knowledge, search_previous_issues, build_incident_brief, and these
\* are followed by a summarize step that is the last step of the plan.
C24_DeterministicPlan ==
    ("planner" \in DOMAIN telemetry /\ telemetry.planner.effective_mode = "deterministic")
        => LET tools == [i \in DOMAIN plan_steps |-> plan_steps[i].tool]
           IN  /\ Len(tools) >= 3
               /\ SubSeq(tools, 1, 3) = <<"summarize", "extract_entities", "classify_priority">>
               /\ _is_incident_request(user_input, task_context)
                    => /\ Len(tools) > 6
                       /\ SubSeq(tools, 4, 6) = <<"search_incident_knowledge",
                                                  "search_previous_issues",
                                                  "build_incident_brief">>
                       /\ tools[Len(tools)] = "summarize"

\* C25: when the graph has taken the retry edge, the next Execute calls every tool whose
\* tool_results entry is failed at that point, whatever planner made the plan.
C25_FailedToolsRerun ==
    [][(pc = "execute" /\ pc' = "verify" /\ runs["execute"] >= 1)
        => \A t \in DOMAIN tool_results :
                tool_results[t].status = "failed"
                    => \E i \in DOMAIN NewCalls : NewCalls[i].tool = t]_vars

\* C26: within one call of execute at most one worker runs the tool function at a time: no
\* worker is running when an attempt starts, while execute handles an exception or sleeps,
\* or when execute has returned.
C26_OneWorkerAtATime ==
    /\ Cardinality(gw_running) <= 1
    /\ gw_pc \in {"attempt", "except", "sleeping", "returned"} => gw_running = {}

\* a call that has returned after an attempt that timed out and a later attempt
C26_Witness ==
    /\ gw_pc = "returned"
    /\ gw_attempts >= 2
    /\ \E i \in DOMAIN gw_log : gw_log[i] = "timed out"

\* C27: the lexical path issues its queries in the order (service and severity, AND),
\* (service and severity, OR), (service, AND), (service, OR), (no filter, AND), (no filter,
\* OR); it stops at the first query with a hit and returns hits of that query only, one
\* for every ticket of it (tickets compared without case); an
\* empty result, and nothing else, moves it to the next query; a query that raises ends
\* the path with no lexical hits and nothing raised to the caller.
C27_LadderOrder ==
    fn_name = "lexical_path"
        => LET a == fn_in
               ladder == <<[service |-> a.service, severity |-> a.severity, relaxed |-> FALSE],
                           [service |-> a.service, severity |-> a.severity, relaxed |-> TRUE],
                           [service |-> a.service, severity |-> None, relaxed |-> FALSE],
                           [service |-> a.service, severity |-> None, relaxed |-> TRUE],
                           [service |-> None, severity |-> None, relaxed |-> FALSE],
                           [service |-> None, severity |-> None, relaxed |-> TRUE]>>
               answer(k) == _search_once(a.index, a.query, a.limit, ladder[k].service,
                                         ladder[k].severity, ladder[k].relaxed)
               n == Len(fn_out.queries)
           IN  /\ n <= 6 /\ fn_out.queries = SubSeq(ladder, 1, n)
               /\ \A k \in 1..(n - 1) : answer(k) = <<>>
               /\ fn_out.raised_in_rung
                    => n = a.raises_at /\ fn_out.lexical_hits = <<>>
               /\ (~fn_out.raised_in_rung /\ n > 0)
                    => /\ answer(n) = <<>> => (n = 6 /\ fn_out.lexical_hits = <<>>)
                       /\ answer(n) # <<>>
                            => /\ fn_out.lexical_hits # <<>>
                               /\ \A i \in DOMAIN fn_out.lexical_hits :
                                    \E j \in DOMAIN answer(n) :
                                        fn_out.lexical_hits[i] = answer(n)[j]
                               /\ \A j \in DOMAIN answer(n) :
                                    \E i \in DOMAIN fn_out.lexical_hits :
                                        UpperStrip(fn_out.lexical_hits[i].ticket)
                                            = UpperStrip(answer(n)[j].ticket)
                               /\ a.raises_at = 0
                                    => fn_out.lexical_hits =
                                            _search_with_relaxation(a.index, a.query, a.limit,
                                                                    a.service, a.severity)

\* a search whose first four queries found nothing and whose fifth query returned hits
C27_Witness ==
    /\ fn_name = "lexical_path"
    /\ Len(fn_out.queries) = 5
    /\ fn_in.service # None /\ fn_in.severity # None
    /\ ~fn_out.raised_in_rung
    /\ fn_out.lexical_hits # <<>>

\* C28: when the run has ended with verification passed and an ok build_incident_brief
\* entry, the evidence the brief was built from (counted in its data, and cited by the
\* deterministic brief) is the result rows of the search_incident_knowledge and
\* search_previous_issues entries of tool_results.
C28_BriefFromFinalEvidence ==
    (pc = "END" /\ Passed /\ _already_ok(tool_results, "build_incident_brief"))
        => LET brief == tool_results["build_incident_brief"]
               incident_knowledge == _tool_result_rows(tool_results, "search_incident_knowledge")
               previous_issues == _tool_result_rows(tool_results, "search_previous_issues")
           IN  /\ brief.data.knowledge_count = Len(incident_knowledge)
               /\ brief.data.previous_count = Len(previous_issues)
               /\ brief.implementation = "deterministic"
                    => brief.data.citations = incident_knowledge \o previous_issues

\* C29: a Plan whose model-backed planner raised records requested_mode llm, effective_mode
\* deterministic, fallback_used true in telemetry.planner, and once telemetry.planner
\* records a fallback every later step of the run keeps these three values, so the
\* telemetry of the ended run holds them.
C29_FallbackStaysRecorded ==
    [][LET planner == Get(telemetry, "planner", EmptyDict)
           planner_next == Get(telemetry', "planner", EmptyDict)
       IN  ((pc = "plan" /\ plan_raised') \/ Get(planner, "fallback_used", FALSE))
                => /\ Get(planner_next, "requested_mode", None) = "llm"
                   /\ Get(planner_next, "effective_mode", None) = "deterministic"
                   /\ Get(planner_next, "fallback_used", FALSE)]_vars

\* the events of telemetry.tool_execution
EventsOf(telemetry_) == Get(Get(telemetry_, "tool_execution", EmptyDict), "events", <<>>)

RECURSIVE InOrderOf(_, _)
\* the tools s are tools of the steps t, taken in the order of t
InOrderOf(s, t) ==
    IF s = <<>> THEN TRUE
    ELSE IF t = <<>> THEN FALSE
    ELSE IF Head(s) = Head(t).tool THEN InOrderOf(Tail(s), Tail(t))
    ELSE InOrderOf(s, Tail(t))

\* C30: the event log only grows.  An Execute keeps the events it found, in their order,
\* and appends one event for each gateway call it made and no other: in plan order, with
\* the call's tool and status, tagged with the retry_count the Execute started with, and
\* none for a tool whose entry was ok; no other node changes the events; the summary
\* counts all the events and the events whose status is not ok.
C30_EventLogGrows ==
    /\ [][LET events == EventsOf(telemetry)
              events_next == EventsOf(telemetry')
              added == SubSeq(events_next, Len(events) + 1, Len(events_next))
          IN  IF pc = "execute" /\ pc' = "verify"
              THEN /\ Len(events_next) >= Len(events)
                   /\ SubSeq(events_next, 1, Len(events)) = events
                   /\ Len(added) = Len(NewCalls)
                   /\ \A i \in DOMAIN added :
                        /\ added[i].tool = NewCalls[i].tool
                        /\ added[i].status = NewCalls[i].status
                        /\ added[i].iteration = retry_count
                        /\ ~_already_ok(tool_results, added[i].tool)
                   /\ InOrderOf([i \in DOMAIN added |-> added[i].tool], plan_steps)
              ELSE events_next = events]_vars
    /\ []("tool_execution" \in DOMAIN telemetry
            => LET events == telemetry["tool_execution"].events
                   summary == telemetry["tool_execution"].summary
               IN  /\ summary.executed_tools = Len(events)
                   /\ summary.failed_tools
                        = Cardinality({i \in DOMAIN events : events[i].status # "ok"}))

\* a second Execute has appended an event of iteration 1 for a tool that had failed, after
\* the events of iteration 0, and has skipped a tool that was ok
C30_Witness ==
    /\ pc = "verify" /\ runs["execute"] = 2
    /\ LET events == EventsOf(telemetry)
       IN  /\ \E i, j \in DOMAIN events :
                /\ i < j
                /\ events[i].iteration = 0 /\ events[i].status = "failed"
                /\ events[j].iteration = 1 /\ events[j].tool = events[i].tool
           /\ \E i \in DOMAIN events :
                /\ events[i].status = "ok" /\ events[i].iteration = 0
                /\ \A j \in DOMAIN events : events[j].tool = events[i].tool => j = i
                /\ \E k \in DOMAIN plan_steps : plan_steps[k].tool = events[i].tool
           /\ telemetry["tool_execution"].summary.failed_tools >= 1

====
